---------------------------- MODULE Spec2Model ----------------------------
(***************************************************************************)
(* Verification model of the Facebook page harvester                       *)
(* (actor-facebook-scraper).                                               *)
(*                                                                         *)
(* Part I   the keyed accumulator: statePersistor (src/src/constants.ts)   *)
(*          and the map.append call sites of handlePageFunction            *)
(*          (src/src/functions.ts).  AsyncMap itself is the npm package    *)
(*          async-atomic-store; its queueing is modelled from the          *)
(*          specification, section 4.5.                                    *)
(***************************************************************************)
EXTENDS Integers, Sequences, FiniteSets, TLC

(***************************************************************************)
(* Bounds of the model.                                                    *)
(***************************************************************************)
NumCalls == 3

\* the largest value a probe of the page (scrollY, scrollHeight) returns
MaxVal == 1

\* the scroll loop of getFieldInfos and getServices is followed for this
\* many completed iterations
MaxCount == 6

\* the scroll loop of getPostUrls is followed for this many completed iterations
MaxRounds == 1

\* posts returned by one round of pageSelectors.posts
MaxPosts == 2

\* the idle window of DelayAbort, in ticks of the clock
Window == 2

\* the clock is followed for this many ticks
MaxTime == 4

Calls == 1..NumCalls

\* usernames extracted from the request urls (extractUsernameFromUrl)
Keys == {"A", "B"}

NoKey == "none"

VARIABLES
    restored,   \* the [key, value] pairs read from 'STATE' at start-up (kv.getValue)
    state,      \* the backing Map<string, Partial<FbPage>>: sequence of [key, value] in insertion order
    kvStore,    \* the [key, value] pairs last written under 'STATE' by persistState
    callKey,    \* per append call: the key it was issued for (NoKey before the call)
    callStatus, \* per append call: "idle", "waiting", "merging", "done", "failed"
    callRead,   \* per append call: the value handed to its merge function
    issued,     \* every append call so far, in call order
    queue,      \* per key: the calls waiting for their turn, in call order
    inflight    \* per key: the calls whose merge has read the value and not yet settled

accVars == <<restored, state, kvStore, callKey, callStatus, callRead, issued, queue, inflight>>

VARIABLES
    site,           \* the caller of scrollUntil
    pc,             \* where the scroll loop stands
    count,          \* scrollUntil: count
    scrolls,        \* scrollUntil: histogram of window.scrollY
    heights,        \* scrollUntil: histogram of document.body.scrollHeight
    scrollChanged,  \* scrollUntil: scrollChanged of the current iteration
    bodyChanged,    \* scrollUntil: bodyChanged of the current iteration
    foundSelectors, \* shouldContinue: foundSelectors of the current iteration
    invoked,        \* maybeStop was invoked in the current iteration
    stopped,        \* the value maybeStop returned in the current iteration
    thrown,         \* maybeStop threw in the current iteration
    lastScroll,     \* scrollUntil: lastScroll, from its sample to its last use
    bodyHeight,     \* scrollUntil: bodyHeight, from its sample to its last use
    markerVisible,  \* the live page shows an element of one of the selectors
    finish,         \* deferred(): the promise and the resolved flag
    control,        \* DelayAbort(60000): state, countdown, outcome of run
    listening,      \* page.on('response', interceptAjax) is attached
    harvest,        \* getPostUrls: "running", "returned" or "threw"
    urls,           \* getPostUrls: urls.size
    todo,           \* getPosts: posts of the current round still to visit
    calls,          \* the calls made by the last step (postpone, resolve, reject)
    now,            \* ticks since run started
    idle,           \* ticks since the last postpone() call or since run started
    firstCall,      \* the first resolve/reject call made on finish
    firstEvent,     \* what happened first: a guarded task settled, or the deadline
    date,           \* minMaxDates: the window object, or that construction threw
    counter,        \* dateRangeItemCounter: total, older, newer, outOfRange, empty
    called,         \* the last call made on the window or the counter
    argTime,        \* the timestamp passed to it (compare, time), else Null
    argFlag,        \* the predicate passed to it (empty), else FALSE
    returned,       \* what it returned (compare, time, isOver), else FALSE
    tripped,        \* isOver returned true on older/total, and no empty, add or time since
    feed,           \* getPosts: what pageSelectors.posts returns, round by round
    postsMax,       \* getPostUrls: max
    round,          \* getPosts: calls of getPosts begun
    left,           \* getPosts: posts of the current round not yet visited
    phase,          \* getPostUrls: scrolling, inside getPosts, halted, or out of posts
    userData,       \* request.userData.urls / .reviews / .comments: items written, Null before
    rethrown,       \* the error the harvester threw to its caller, "none" if it did not
    callKind,       \* per append call: the merge function it was given
    reqPhase,       \* per POST request: queued, appending, checking, handled or failed
    reqCall,        \* per POST request: the append call of its current attempt
    held,           \* the items in the Set urls / the Map reviews, by url
    enqueued,       \* per url: the requestQueue.addRequest calls made for it
    batch,          \* the posts / reviews read from the page and not yet visited
    reading,        \* getPosts / getReviewsFromPage is running
    limit,          \* max
    reads,          \* which read is next: the first, one of the scroll loop, none
    mode,           \* getPostComments: mode
    canStartAdding, \* getPostComments: canStartAdding
    step,           \* getPostComments: the await its try block stands at
    respPhase,      \* per response: not yet here, res.json() pending, handled
    early,          \* per response: it arrived before the comment ordering was handled
    comments,       \* getPostComments: per comment id, where its entry of comments is from
    cache,          \* resourceCache: per url, the entry of cache
    reqs,           \* per intercepted request: url, type, answers given, response handling
    stored          \* per url: a response with a non-empty body was stored in cache

scrollVars == <<site, pc, count, scrolls, heights, scrollChanged, bodyChanged,
                foundSelectors, invoked, stopped, thrown, lastScroll, bodyHeight,
                markerVisible>>

runVars == <<finish, control, listening, harvest, urls, todo, calls, now, idle,
             firstCall, firstEvent>>

counterVars == <<date, counter, called, argTime, argFlag, returned, tripped>>

postsVars == <<feed, postsMax, round, left, phase>>

exitVars == <<userData, rethrown>>

pageVars == <<callKind, reqPhase, reqCall>>

collectVars == <<held, enqueued, batch, reading, limit, reads>>

commentVars == <<mode, canStartAdding, step, respPhase, early, comments>>

cacheVars == <<cache, reqs, stored>>

vars == <<accVars, scrollVars, runVars, counterVars, postsVars, exitVars, pageVars, collectVars, commentVars, cacheVars>>

-----------------------------------------------------------------------------
(***************************************************************************)
(* JavaScript Map, kept as the sequence of its entries in insertion order. *)
(***************************************************************************)
MapKeys(m) == {m[i].key : i \in 1..Len(m)}

MapHas(m, k) == k \in MapKeys(m)

MapIndex(m, k) == CHOOSE i \in 1..Len(m) : m[i].key = k

\* Map.prototype.get: undefined (here the empty record of merges) when absent
MapGet(m, k) == IF MapHas(m, k) THEN m[MapIndex(m, k)].value ELSE <<>>

\* Map.prototype.set: an existing key keeps its position, a new key goes last
MapSet(m, k, v) ==
    IF MapHas(m, k)
    THEN [m EXCEPT ![MapIndex(m, k)] = [key |-> k, value |-> v]]
    ELSE Append(m, [key |-> k, value |-> v])

(***************************************************************************)
(* The merge functions passed to map.append all have the shape             *)
(*     async (value) => ({ ...value, <what this request extracted> })      *)
(* A value is modelled as the sequence of the contributions it holds; the  *)
(* contribution of call c is c itself (the services merge appends to the   *)
(* list it read).                                                          *)
(***************************************************************************)
MergeDropsRead(c, value) == <<c>>

Merge(c, value) == Append(value, c)

\* [...state]: the entries as [key, value] pairs, in insertion order
Spread(m) == [i \in 1..Len(m) |-> <<m[i].key, m[i].value>>]

NewMapNewestFirst(pairs) ==
    [i \in 1..Len(pairs) |->
        [key |-> pairs[Len(pairs) + 1 - i][1], value |-> pairs[Len(pairs) + 1 - i][2]]]

\* new Map(pairs): the pairs are set one by one, in order
RECURSIVE NewMap(_)
NewMap(pairs) ==
    IF pairs = <<>> THEN <<>>
    ELSE LET last == pairs[Len(pairs)]
         IN  MapSet(NewMap(SubSeq(pairs, 1, Len(pairs) - 1)), last[1], last[2])

\* The pairs a previous run left under 'STATE' (kv.getValue('STATE'))
Seeds == { <<>>, << <<"A", <<0>>>> >> }

-----------------------------------------------------------------------------
(***************************************************************************)
(* AsyncMap(state).append(key, merge)                                      *)
(***************************************************************************)

\* A waiting call may start its merge when it is the oldest waiting call of
\* its key and no merge of that key is in flight.
TurnIgnoresInflight(k) == queue[k] # <<>>

TurnIsGlobal(k) == queue[k] # <<>> /\ \A j \in Keys : inflight[j] = {}

TurnGranted(k) == queue[k] # <<>> /\ inflight[k] = {}

\* The call whose turn it is.
NextOfNewest(q) == q[Len(q)]

NextOf(q) == Head(q)

RestOf(q, c) == SelectSeq(q, LAMBDA x : x # c)

\* The Map after the merge of an in-flight call failed.
StateAfterThrowCleared(m, k) == MapSet(m, k, <<>>)

StateAfterThrowDeleted(m, k) == SelectSeq(m, LAMBDA e : e.key # k)

StateAfterThrow(m, k) == m

\* map.append(username, merge) is called: the call joins the queue of its key.
AppendCall(c, k) ==
    /\ callStatus[c] = "idle"
    /\ callKey' = [callKey EXCEPT ![c] = k]
    /\ callStatus' = [callStatus EXCEPT ![c] = "waiting"]
    /\ issued' = Append(issued, c)
    /\ queue' = [queue EXCEPT ![k] = Append(@, c)]
    /\ UNCHANGED <<restored, state, kvStore, callRead, inflight, scrollVars, runVars,
                   counterVars, postsVars, exitVars, pageVars, collectVars, commentVars, cacheVars>>

\* The turn of the oldest waiting call of key k: merge(state.get(k)) starts.
StartMerge(k) ==
    /\ TurnGranted(k)
    /\ LET c == NextOf(queue[k]) IN
        /\ queue' = [queue EXCEPT ![k] = RestOf(@, c)]
        /\ inflight' = [inflight EXCEPT ![k] = @ \cup {c}]
        /\ callRead' = [callRead EXCEPT ![c] = MapGet(state, k)]
        /\ callStatus' = [callStatus EXCEPT ![c] = "merging"]
    /\ UNCHANGED <<restored, state, kvStore, callKey, issued, scrollVars, runVars,
                   counterVars, postsVars, exitVars, pageVars, collectVars, commentVars, cacheVars>>

\* The merge of an in-flight call returns: its result is stored and the
\* append resolves.
MergeReturns(c) ==
    /\ callStatus[c] = "merging"
    /\ LET k == callKey[c] IN
        /\ state' = MapSet(state, k, Merge(c, callRead[c]))
        /\ inflight' = [inflight EXCEPT ![k] = @ \ {c}]
    /\ callStatus' = [callStatus EXCEPT ![c] = "done"]
    /\ UNCHANGED <<restored, kvStore, callKey, callRead, issued, queue, scrollVars, runVars,
                   counterVars, postsVars, exitVars, pageVars, collectVars, commentVars, cacheVars>>

\* The merge of an in-flight call throws (InfoError of getPageInfo or
\* getFieldInfos): the append rejects, nothing is stored.
MergeThrows(c) ==
    /\ callStatus[c] = "merging"
    /\ LET k == callKey[c] IN
        /\ state' = StateAfterThrow(state, k)
        /\ inflight' = [inflight EXCEPT ![k] = @ \ {c}]
    /\ callStatus' = [callStatus EXCEPT ![c] = "failed"]
    /\ UNCHANGED <<restored, kvStore, callKey, callRead, issued, queue, scrollVars, runVars,
                   counterVars, postsVars, exitVars, pageVars, collectVars, commentVars, cacheVars>>

\* persistState: kv.setValue('STATE', [...state])
persistState ==
    /\ kvStore # Spread(state)
    /\ kvStore' = Spread(state)
    /\ UNCHANGED <<restored, state, callKey, callStatus, callRead, issued, queue, inflight, scrollVars, runVars,
                   counterVars, postsVars, exitVars, pageVars, collectVars, commentVars, cacheVars>>

InitAcc ==
    /\ restored \in Seeds
    /\ state = NewMap(restored)
    /\ kvStore = restored
    /\ callKey = [c \in Calls |-> NoKey]
    /\ callStatus = [c \in Calls |-> "idle"]
    /\ callRead = [c \in Calls |-> <<>>]
    /\ issued = <<>>
    /\ queue = [k \in Keys |-> <<>>]
    /\ inflight = [k \in Keys |-> {}]

NextAcc ==
    \/ \E c \in Calls, k \in Keys : AppendCall(c, k)
    \/ \E k \in Keys : StartMerge(k)
    \/ \E c \in Calls : MergeReturns(c)
    \/ \E c \in Calls : MergeThrows(c)
    \/ persistState

-----------------------------------------------------------------------------
(***************************************************************************)
(* The entries of the accumulator field by field: initSubPage, the 'home'  *)
(* page and the POST requests of handlePageFunction.  An entry is a record *)
(* of the fields it holds (pageUrl, ref for '#ref', title, posts); a post  *)
(* record is named after the request that produced it.                     *)
(***************************************************************************)

\* { ...a, ...b }: the fields of b, and the fields of a that b does not hold
Assign(a, b) ==
    [f \in DOMAIN a \cup DOMAIN b |-> IF f \in DOMAIN b THEN b[f] ELSE a[f]]

\* emptyState(): title: '', posts: [], pageUrl: ''
emptyState == [pageUrl |-> "", title |-> "", posts |-> <<>>]

\* the url initSubPage is given as '#ref': the start url, or the listing
Refs == {"start", "listing"}

\* titles read by getPageInfo
Titles == {"T"}

\* the POST requests, enqueued by getPostUrls with userData.username
Reqs == {"p1"}

\* userData.username of a POST request
UsernameOf(r) == "A"

NoKind == [op |-> "none", arg |-> "none"]

\* entries a previous run left under 'STATE'
PageSeeds == { <<>>, << <<"A", [title |-> "T", ref |-> "listing"]>> >> }

InitMergeOverwrites(k, ref, value) ==
    Assign(value, Assign(emptyState, [pageUrl |-> k, ref |-> ref]))

\* initSubPage: { ...emptyState(), pageUrl, '#url', '#ref': url, ...value }
InitMerge(k, ref, value) ==
    Assign(Assign(emptyState, [pageUrl |-> k, ref |-> ref]), value)

\* PAGE 'home': { ...value, likes, messenger, title, verified, address }
HomeMerge(title, value) == Assign(value, [title |-> title])

\* POST: { ...value, posts: [{ ...content, postStats, postComments }, ...(value?.posts ?? [])] }
PostMerge(r, value) ==
    LET posts == IF "posts" \in DOMAIN value THEN value.posts ELSE <<>>
    IN  Assign(value, [posts |-> <<r>> \o posts])

\* the merge function of a call, applied to the value it read
MergeOf(kind, k, value) ==
    CASE kind.op = "init" -> InitMerge(k, kind.arg, value)
      [] kind.op = "home" -> HomeMerge(kind.arg, value)
      [] kind.op = "post" -> PostMerge(kind.arg, value)

\* map.append(username, merge) with one of these merge functions; the calls
\* are numbered in call order
PageAppend(c, k, kind) ==
    /\ c = Len(issued) + 1
    /\ callStatus[c] = "idle"
    /\ callKey' = [callKey EXCEPT ![c] = k]
    /\ callStatus' = [callStatus EXCEPT ![c] = "waiting"]
    /\ issued' = Append(issued, c)
    /\ queue' = [queue EXCEPT ![k] = Append(@, c)]
    /\ callKind' = [callKind EXCEPT ![c] = kind]
    /\ UNCHANGED <<restored, state, kvStore, callRead, inflight>>
    /\ UNCHANGED <<scrollVars, runVars, counterVars, postsVars, exitVars, collectVars, commentVars, cacheVars>>

\* initSubPage(subpage, url) for section 'home'
InitSubPage(c, k, ref) ==
    /\ PageAppend(c, k, [op |-> "init", arg |-> ref])
    /\ UNCHANGED <<reqPhase, reqCall>>

\* handlePageFunction, PAGE 'home': map.append(username, ...)
HandleHome(c, k, title) ==
    /\ PageAppend(c, k, [op |-> "home", arg |-> title])
    /\ UNCHANGED <<reqPhase, reqCall>>

\* handlePageFunction, POST: the post is read and map.append(username, ...)
\* is called; a request that failed before is handled again by the crawler
HandlePost(r, c) ==
    /\ reqPhase[r] = "queued"
    /\ PageAppend(c, UsernameOf(r), [op |-> "post", arg |-> r])
    /\ reqPhase' = [reqPhase EXCEPT ![r] = "appending"]
    /\ reqCall' = [reqCall EXCEPT ![r] = c]

\* the merge of an in-flight call returns: its result is stored
PageMergeReturns(c) ==
    /\ callStatus[c] = "merging"
    /\ LET k == callKey[c] IN
        /\ state' = MapSet(state, k, MergeOf(callKind[c], k, callRead[c]))
        /\ inflight' = [inflight EXCEPT ![k] = @ \ {c}]
    /\ callStatus' = [callStatus EXCEPT ![c] = "done"]
    /\ UNCHANGED <<restored, kvStore, callKey, callRead, issued, queue>>
    /\ UNCHANGED <<scrollVars, runVars, counterVars, postsVars, exitVars, pageVars, collectVars, commentVars, cacheVars>>

\* getPageInfo or getFieldInfos throws inside the merge of 'home'
HomeMergeThrows(c) ==
    /\ callKind[c].op = "home"
    /\ MergeThrows(c)

\* POST after `await map.append(...)`: fewer comments than minPostComments
\* throws InfoError 'threshold', and the crawler queues the request again
CheckThreshold(r, met) ==
    /\ reqPhase[r] = "appending"
    /\ callStatus[reqCall[r]] = "done"
    /\ reqPhase' = [reqPhase EXCEPT ![r] = IF met THEN "handled" ELSE "queued"]
    /\ UNCHANGED <<callKind, reqCall>>
    /\ UNCHANGED <<accVars, scrollVars, runVars, counterVars, postsVars, exitVars, collectVars, commentVars, cacheVars>>

InitPage ==
    /\ callKind = [c \in Calls |-> NoKind]
    /\ reqPhase = [r \in Reqs |-> "queued"]
    /\ reqCall = [r \in Reqs |-> 0]

NextPage ==
    \/ \E c \in Calls, k \in Keys, ref \in Refs : InitSubPage(c, k, ref)
    \/ \E c \in Calls, k \in Keys, title \in Titles : HandleHome(c, k, title)
    \/ \E r \in Reqs, c \in Calls : HandlePost(r, c)
    \/ \E k \in Keys : StartMerge(k)
    \/ \E c \in Calls : PageMergeReturns(c)
    \/ \E c \in Calls : HomeMergeThrows(c)
    \/ \E r \in Reqs, met \in BOOLEAN : CheckThreshold(r, met)

-----------------------------------------------------------------------------
(***************************************************************************)
(* Part II  the scroll loop scrollUntil (src/src/functions.ts), the        *)
(*          deferred signal (src/src/functions.ts) and the guarded run of  *)
(*          getPostUrls.  DelayAbort is the npm package                    *)
(*          delayable-idle-abort-promise; its state machine is modelled    *)
(*          from the specification, section 4.3.                           *)
(***************************************************************************)

\* the callers of scrollUntil that are followed
Sites == {"getFieldInfos", "getServices", "getPostUrls"}

\* getFieldInfos passes selectors, the other callers leave the default []
HasSelectors(s) == s = "getFieldInfos"

\* the harvesters: they run the loop under control.run together with
\* finish.promise
Harvesters == {"getPostUrls", "getReviews", "getPostComments"}

Guarded(s) == s \in Harvesters

\* getPostUrls calls control.run first thing; getReviews awaits
\* getReviewsFromPage() and getPostComments clicks "load comments" before
StartsRunning(s) == s = "getPostUrls"

\* undefined / null returned by a probe
Null == -1

\* what page.evaluate can return for window.scrollY and body.scrollHeight
ProbeVals == {Null} \cup (0..MaxVal)

\* getPostUrls: max
maxPosts == 2

\* items a harvester collects at most in a run
MaxItems == 2

\* the urls of the posts / reviews a page can show
ItemCount == 3

\* the responses the listener of getPostComments is called with
RespCount == 1

\* the urls requested by the pages that share the resource cache
UrlCount == 2

\* the requests intercepted
ReqCount == 3

\* getFieldInfos: maybeStop returns count > 5
FieldInfosCount == 5

\* getServices: count > 2
ServicesCount == 2

\* getPostUrls: count > 20
PostsCount == 20

\* the default of the doScroll option: () => true; no caller overrides it
doScroll == TRUE

NoOutcome == [kind |-> "none", value |-> "none"]

Fulfilled(v) == [kind |-> "fulfilled", value |-> v]

Rejected(e) == [kind |-> "rejected", value |-> e]

\* the idle deadline elapsed (history only)
Deadline == [kind |-> "deadline", value |-> "none"]

NoCall == [op |-> "none", value |-> "none"]

ResolveCall == [op |-> "resolve", value |-> "undefined"]

RejectCall(e) == [op |-> "reject", value |-> e]

Terminal == {"aborted", "completed"}

(***************************************************************************)
(* scrollUntil: isChanging(histogram, num)                                 *)
(***************************************************************************)
isChangingAlways(histogram, num) == num # Null

isChanging(histogram, num) ==
    IF num = Null THEN FALSE ELSE \A val \in histogram : num # val

RecordZero(histogram, num) ==
    IF num # Null THEN histogram \cup {num} ELSE histogram

\* if (lastScroll) { scrolls.add(lastScroll) }: 0 and null are falsy
Record(histogram, num) ==
    IF num # Null /\ num # 0 THEN histogram \cup {num} ELSE histogram

(***************************************************************************)
(* deferred(): resolve and reject set the flag and call the promise's own  *)
(* r1 / r2, which act only on a pending promise.                           *)
(***************************************************************************)
DeferredResolveOverwrites(d, v) ==
    [resolved |-> TRUE, state |-> "fulfilled", value |-> v]

DeferredResolve(d, v) ==
    [resolved |-> TRUE,
     state |-> IF d.state = "pending" THEN "fulfilled" ELSE d.state,
     value |-> IF d.state = "pending" THEN v ELSE d.value]

DeferredRejectOverwrites(d, e) ==
    [resolved |-> TRUE, state |-> "rejected", value |-> e]

DeferredReject(d, e) ==
    [resolved |-> TRUE,
     state |-> IF d.state = "pending" THEN "rejected" ELSE d.state,
     value |-> IF d.state = "pending" THEN e ELSE d.value]

DeferredCall(d, call) ==
    IF call.op = "resolve" THEN DeferredResolve(d, call.value)
    ELSE IF call.op = "reject" THEN DeferredReject(d, call.value)
    ELSE d

\* the outcome an observer of the promise sees
OutcomeOf(d) ==
    IF d.state = "pending" THEN NoOutcome ELSE [kind |-> d.state, value |-> d.value]

(***************************************************************************)
(* DelayAbort(window): postpone() and run([...])                           *)
(***************************************************************************)
Armed == [state |-> "armed", remaining |-> Window, outcome |-> NoOutcome]

Unused == [state |-> "none", remaining |-> 0, outcome |-> NoOutcome]

PostponeIgnored(c) == c

PostponeRearms(c) ==
    IF c.state = "none" THEN c ELSE Armed

\* postpone(): the countdown restarts from the full window while armed
Postpone(c) ==
    IF c.state = "armed" THEN [c EXCEPT !.remaining = Window] ELSE c

RunSettlesWaits(c, o) == c

\* a guarded task settled with outcome o: run ends with it
RunSettles(c, o) ==
    IF c.state = "armed"
    THEN [state |-> "completed", remaining |-> 0, outcome |-> o]
    ELSE c

\* one tick of the clock while armed: the deadline elapses at 0
TickControl(c) ==
    IF c.remaining > 1
    THEN [c EXCEPT !.remaining = @ - 1]
    ELSE [state |-> "aborted", remaining |-> 0, outcome |-> Rejected("AbortError")]

\* run observes finish.promise: it sees the promise settle
Observe(c, before, after) ==
    IF before.state = "pending" /\ after.state # "pending"
    THEN RunSettles(c, OutcomeOf(after))
    ELSE c

\* the continuation of `await control.run(...)` runs before any other handler
Quiescent == ~(harvest = "running" /\ control.state \in Terminal)

(***************************************************************************)
(* The effect of one step on the signal and the controller: the step calls *)
(* postpone() (or not), then makes one call on finish (or none), and the   *)
(* scroll loop's own promise settles with scrollOut (or stays pending).    *)
(***************************************************************************)
RunStep(postponeCalled, call, scrollOut) ==
    LET c1 == IF postponeCalled THEN Postpone(control) ELSE control
        f1 == DeferredCall(finish, call)
        c2 == Observe(c1, finish, f1)
        c3 == IF scrollOut # NoOutcome THEN RunSettles(c2, scrollOut) ELSE c2
        settled == IF finish.state = "pending" /\ call.op # "none"
                   THEN (IF call.op = "resolve" THEN Fulfilled(call.value) ELSE Rejected(call.value))
                   ELSE scrollOut
    IN  /\ finish' = f1
        /\ control' = c3
        /\ calls' = (IF postponeCalled THEN {"postpone"} ELSE {})
                    \cup (IF call.op # "none" THEN {call.op} ELSE {})
        /\ idle' = IF postponeCalled THEN 0 ELSE idle
        /\ now' = now
        /\ firstCall' = IF firstCall = NoCall THEN call ELSE firstCall
        /\ firstEvent' = IF firstEvent = NoOutcome /\ Guarded(site) THEN settled ELSE firstEvent

LoopEndsCounting(out) ==
    /\ pc' = IF out.kind = "fulfilled" THEN "done" ELSE "failed"
    /\ count' = count + 1

\* the scroll loop ends: its promise fulfils (break) or rejects (throw)
LoopEnds(out) ==
    /\ pc' = IF out.kind = "fulfilled" THEN "done" ELSE "failed"
    /\ UNCHANGED count

\* the stop check lets the loop continue: count++
LoopContinues ==
    /\ count < (IF Guarded(site) THEN MaxRounds ELSE MaxCount)
    /\ count' = count + 1
    /\ pc' = "sleep"

-----------------------------------------------------------------------------
(***************************************************************************)
(* scrollUntil                                                             *)
(***************************************************************************)

\* await sleep; if (doScroll()) { await sleep; ...
StartIteration ==
    /\ Quiescent
    /\ pc = "sleep"
    /\ pc' = IF doScroll THEN "scrollBy" ELSE "sleep"
    /\ invoked' = FALSE
    /\ stopped' = FALSE
    /\ thrown' = FALSE
    /\ foundSelectors' = FALSE
    /\ lastScroll' = Null
    /\ bodyHeight' = Null
    /\ RunStep(FALSE, NoCall, NoOutcome)
    /\ UNCHANGED <<site, count, scrolls, heights, scrollChanged, bodyChanged, markerVisible>>
    /\ UNCHANGED <<listening, harvest, urls, todo>>
    /\ UNCHANGED accVars
    /\ UNCHANGED <<counterVars, postsVars, exitVars, pageVars, collectVars, commentVars, cacheVars>>

\* await page.evaluate(window.scrollBy(...)); await sleep
ScrollBy ==
    /\ Quiescent
    /\ pc = "scrollBy"
    /\ pc' = "sampleScroll"
    /\ RunStep(FALSE, NoCall, NoOutcome)
    /\ UNCHANGED <<site, count, scrolls, heights, scrollChanged, bodyChanged,
                   foundSelectors, invoked, stopped, thrown, lastScroll, bodyHeight,
                   markerVisible>>
    /\ UNCHANGED <<listening, harvest, urls, todo>>
    /\ UNCHANGED accVars
    /\ UNCHANGED <<counterVars, postsVars, exitVars, pageVars, collectVars, commentVars, cacheVars>>

SampleScrollThenCheck(v) ==
    /\ Quiescent
    /\ pc = "sampleScroll"
    /\ lastScroll' = v
    /\ scrollChanged' = isChanging(scrolls, v)
    /\ scrolls' = Record(scrolls, v)
    /\ pc' = "maybeStop"
    /\ RunStep(FALSE, NoCall, NoOutcome)
    /\ UNCHANGED <<site, count, heights, bodyChanged, foundSelectors, invoked, stopped,
                   thrown, bodyHeight, markerVisible>>
    /\ UNCHANGED <<listening, harvest, urls, todo>>
    /\ UNCHANGED accVars
    /\ UNCHANGED <<counterVars, postsVars, exitVars, pageVars, collectVars, commentVars, cacheVars>>

\* lastScroll = window.scrollY; scrollChanged = isChanging(scrolls, lastScroll);
\* if (lastScroll) scrolls.add(lastScroll)
SampleScroll(v) ==
    /\ Quiescent
    /\ pc = "sampleScroll"
    /\ lastScroll' = v
    /\ scrollChanged' = isChanging(scrolls, v)
    /\ scrolls' = Record(scrolls, v)
    /\ pc' = "sampleHeight"
    /\ RunStep(FALSE, NoCall, NoOutcome)
    /\ UNCHANGED <<site, count, heights, bodyChanged, foundSelectors, invoked, stopped,
                   thrown, bodyHeight, markerVisible>>
    /\ UNCHANGED <<listening, harvest, urls, todo>>
    /\ UNCHANGED accVars
    /\ UNCHANGED <<counterVars, postsVars, exitVars, pageVars, collectVars, commentVars, cacheVars>>

\* bodyHeight = document.body.scrollHeight; bodyChanged = isChanging(heights, bodyHeight);
\* if (bodyHeight) heights.add(bodyHeight); await sleep
SampleHeight(v) ==
    /\ Quiescent
    /\ pc = "sampleHeight"
    /\ bodyHeight' = v
    /\ bodyChanged' = isChanging(heights, v)
    /\ heights' = Record(heights, v)
    /\ pc' = IF HasSelectors(site) THEN "selectors" ELSE "maybeStop"
    /\ RunStep(FALSE, NoCall, NoOutcome)
    /\ UNCHANGED <<site, count, scrolls, scrollChanged, foundSelectors, invoked, stopped,
                   thrown, lastScroll, markerVisible>>
    /\ UNCHANGED <<listening, harvest, urls, todo>>
    /\ UNCHANGED accVars
    /\ UNCHANGED <<counterVars, postsVars, exitVars, pageVars, collectVars, commentVars, cacheVars>>

FoundSelectorsNever(visible) == FALSE

\* sels.some(z => [...document.querySelectorAll(z)].some(el => visible on screen))
FoundSelectors(visible) == visible

\* shouldContinue: foundSelectors = await page.evaluate(...); a found selector
\* ends the loop, otherwise maybeStop is asked next
CheckSelectors ==
    /\ Quiescent
    /\ pc = "selectors"
    /\ foundSelectors' = FoundSelectors(markerVisible)
    /\ IF FoundSelectors(markerVisible)
       THEN LoopEnds(Fulfilled("undefined")) /\ RunStep(FALSE, NoCall, Fulfilled("undefined"))
       ELSE pc' = "maybeStop" /\ UNCHANGED count /\ RunStep(FALSE, NoCall, NoOutcome)
    /\ UNCHANGED <<site, scrolls, heights, scrollChanged, bodyChanged, invoked, stopped, thrown, lastScroll, bodyHeight,
                   markerVisible>>
    /\ UNCHANGED <<listening, harvest, urls, todo>>
    /\ UNCHANGED accVars
    /\ UNCHANGED <<counterVars, postsVars, exitVars, pageVars, collectVars, commentVars, cacheVars>>

\* a page.evaluate of the loop throws (the page closed or navigated away)
ProbeFails ==
    /\ Quiescent
    /\ pc \in {"scrollBy", "sampleScroll", "sampleHeight", "selectors"}
    /\ LoopEnds(Rejected("probe"))
    /\ RunStep(FALSE, NoCall, Rejected("probe"))
    /\ UNCHANGED <<site, scrolls, heights, scrollChanged, bodyChanged,
                   foundSelectors, invoked, stopped, thrown, lastScroll, bodyHeight,
                   markerVisible>>
    /\ UNCHANGED <<listening, harvest, urls, todo>>
    /\ UNCHANGED accVars
    /\ UNCHANGED <<counterVars, postsVars, exitVars, pageVars, collectVars, commentVars, cacheVars>>

\* the page gains or loses an element matching one of the selectors
PageChanges ==
    /\ HasSelectors(site)
    /\ pc \notin {"done", "failed"}
    /\ markerVisible' = ~markerVisible
    /\ UNCHANGED <<site, pc, count, scrolls, heights, scrollChanged, bodyChanged,
                   foundSelectors, invoked, stopped, thrown, lastScroll,
                   bodyHeight>>
    /\ UNCHANGED runVars
    /\ UNCHANGED accVars
    /\ UNCHANGED <<counterVars, postsVars, exitVars, pageVars, collectVars, commentVars, cacheVars>>

StopCheckCapped(stop, postponeCalled, call) ==
    IF stop \/ count >= 1
    THEN LoopEnds(Fulfilled("undefined")) /\ RunStep(postponeCalled, call, Fulfilled("undefined"))
    ELSE LoopContinues /\ RunStep(postponeCalled, call, NoOutcome)

\* what the loop does with the value maybeStop returned
StopCheck(stop, postponeCalled, call) ==
    IF stop
    THEN LoopEnds(Fulfilled("undefined")) /\ RunStep(postponeCalled, call, Fulfilled("undefined"))
    ELSE LoopContinues /\ RunStep(postponeCalled, call, NoOutcome)

StopThrowsSwallowed(e) ==
    LoopContinues /\ RunStep(FALSE, NoCall, NoOutcome)

\* maybeStop throws inside `await shouldContinue(...)`: nothing in scrollUntil
\* catches, so its promise rejects with the error
StopThrows(e) ==
    LoopEnds(Rejected(e)) /\ RunStep(FALSE, NoCall, Rejected(e))

\* getFieldInfos: maybeStop: async ({ count }) => count > 5
MaybeStopFieldInfos ==
    /\ site = "getFieldInfos"
    /\ pc = "maybeStop"
    /\ invoked' = TRUE
    /\ stopped' = (count > FieldInfosCount)
    /\ thrown' = FALSE
    /\ StopCheck(count > FieldInfosCount, FALSE, NoCall)
    /\ UNCHANGED <<site, scrolls, heights, scrollChanged, bodyChanged, foundSelectors,
                   lastScroll, bodyHeight, markerVisible>>
    /\ UNCHANGED <<listening, harvest, urls, todo>>
    /\ UNCHANGED accVars
    /\ UNCHANGED <<counterVars, postsVars, exitVars, pageVars, collectVars, commentVars, cacheVars>>

\* getServices: maybeStop: await sleep;
\*   return (count > 2 && !bodyChanged && !scrollChanged) || !(await page.$(SERVICES))
\* page.$ is asked only when the first operand is false; it finds the
\* element, finds none, or throws
MaybeStopServices(probe) ==
    /\ site = "getServices"
    /\ pc = "maybeStop"
    /\ invoked' = TRUE
    /\ LET stalled == count > ServicesCount /\ ~bodyChanged /\ ~scrollChanged IN
        IF ~stalled /\ probe = "throws"
        THEN /\ stopped' = FALSE
             /\ thrown' = TRUE
             /\ StopThrows("probe")
        ELSE /\ stopped' = (stalled \/ probe # "present")
             /\ thrown' = FALSE
             /\ StopCheck(stalled \/ probe # "present", FALSE, NoCall)
    /\ UNCHANGED <<site, scrolls, heights, scrollChanged, bodyChanged, foundSelectors,
                   lastScroll, bodyHeight, markerVisible>>
    /\ UNCHANGED <<listening, harvest, urls, todo>>
    /\ UNCHANGED accVars
    /\ UNCHANGED <<counterVars, postsVars, exitVars, pageVars, collectVars, commentVars, cacheVars>>

-----------------------------------------------------------------------------
(***************************************************************************)
(* getPostUrls: maybeStop = getPosts() and the final test                  *)
(***************************************************************************)

\* maybeStop is invoked (lastScroll and bodyHeight were last read by the
\* log.debug before it): getPosts awaits pageSelectors.posts(page, 5000),
\* which returns n posts
GetPostsFetch(n) ==
    /\ Quiescent
    /\ site = "getPostUrls"
    /\ pc = "maybeStop"
    /\ invoked' = TRUE
    /\ stopped' = FALSE
    /\ thrown' = FALSE
    /\ lastScroll' = Null
    /\ bodyHeight' = Null
    /\ pc' = "posts"
    /\ todo' = n
    /\ RunStep(FALSE, NoCall, NoOutcome)
    /\ UNCHANGED <<site, count, scrolls, heights, scrollChanged, bodyChanged,
                   foundSelectors, markerVisible>>
    /\ UNCHANGED <<listening, harvest, urls>>
    /\ UNCHANGED accVars
    /\ UNCHANGED <<counterVars, postsVars, exitVars, pageVars, collectVars, commentVars, cacheVars>>

\* pageSelectors.posts throws: the InfoError of namespace 'posts' goes to
\* finish.reject, any other error to finish.resolve
GetPostsFails(isInfoError) ==
    /\ Quiescent
    /\ site = "getPostUrls"
    /\ pc = "maybeStop"
    /\ invoked' = TRUE
    /\ stopped' = FALSE
    /\ thrown' = FALSE
    /\ lastScroll' = Null
    /\ bodyHeight' = Null
    /\ pc' = "click"
    /\ RunStep(FALSE, IF isInfoError THEN RejectCall("posts") ELSE ResolveCall, NoOutcome)
    /\ UNCHANGED <<site, count, scrolls, heights, scrollChanged, bodyChanged,
                   foundSelectors, markerVisible>>
    /\ UNCHANGED <<listening, harvest, urls, todo>>
    /\ UNCHANGED accVars
    /\ UNCHANGED <<counterVars, postsVars, exitVars, pageVars, collectVars, commentVars, cacheVars>>

\* one turn of `for (... of posts)`: stop when enough urls were collected or
\* the counter is over (finish.resolve(); return), otherwise postpone() and,
\* for a new url in range, urls.add and await requestQueue.addRequest
GetPostsVisit(isOver, fresh) ==
    /\ Quiescent
    /\ site = "getPostUrls"
    /\ pc = "posts"
    /\ IF todo = 0
       THEN /\ pc' = "click"
            /\ UNCHANGED <<urls, todo>>
            /\ RunStep(FALSE, NoCall, NoOutcome)
       ELSE IF urls >= maxPosts \/ isOver
       THEN /\ pc' = "return"
            /\ UNCHANGED <<urls, todo>>
            /\ RunStep(FALSE, ResolveCall, NoOutcome)
       ELSE /\ pc' = IF fresh THEN "addRequest" ELSE "posts"
            /\ urls' = IF fresh THEN urls + 1 ELSE urls
            /\ todo' = todo - 1
            /\ RunStep(TRUE, NoCall, NoOutcome)
    /\ UNCHANGED <<site, count, scrolls, heights, scrollChanged, bodyChanged,
                   foundSelectors, invoked, stopped, thrown, lastScroll, bodyHeight,
                   markerVisible>>
    /\ UNCHANGED <<listening, harvest>>
    /\ UNCHANGED accVars
    /\ UNCHANGED <<counterVars, postsVars, exitVars, pageVars, collectVars, commentVars, cacheVars>>

\* await requestQueue.addRequest(...) returns, or throws into the catch of
\* getPosts (finish.resolve())
AddRequest(ok) ==
    /\ Quiescent
    /\ site = "getPostUrls"
    /\ pc = "addRequest"
    /\ pc' = IF ok THEN "posts" ELSE "click"
    /\ RunStep(FALSE, IF ok THEN NoCall ELSE ResolveCall, NoOutcome)
    /\ UNCHANGED <<site, count, scrolls, heights, scrollChanged, bodyChanged,
                   foundSelectors, invoked, stopped, thrown, lastScroll, bodyHeight,
                   markerVisible>>
    /\ UNCHANGED <<listening, harvest, urls, todo>>
    /\ UNCHANGED accVars
    /\ UNCHANGED <<counterVars, postsVars, exitVars, pageVars, collectVars, commentVars, cacheVars>>

\* await sleep(scrollingSleep); try { await page.click(...) } catch {}
ClickMore ==
    /\ Quiescent
    /\ site = "getPostUrls"
    /\ pc = "click"
    /\ pc' = "return"
    /\ RunStep(FALSE, NoCall, NoOutcome)
    /\ UNCHANGED <<site, count, scrolls, heights, scrollChanged, bodyChanged,
                   foundSelectors, invoked, stopped, thrown, lastScroll, bodyHeight,
                   markerVisible>>
    /\ UNCHANGED <<listening, harvest, urls, todo>>
    /\ UNCHANGED accVars
    /\ UNCHANGED <<counterVars, postsVars, exitVars, pageVars, collectVars, commentVars, cacheVars>>

\* return urls.size >= max || counter.isOver() || (count > 20 && !bodyChanged && !scrollChanged)
MaybeStopPosts(isOver) ==
    /\ Quiescent
    /\ site = "getPostUrls"
    /\ pc = "return"
    /\ LET stop == urls >= maxPosts \/ isOver
                    \/ (count > PostsCount /\ ~bodyChanged /\ ~scrollChanged)
       IN stopped' = stop /\ thrown' = FALSE /\ StopCheck(stop, FALSE, NoCall)
    /\ UNCHANGED <<site, scrolls, heights, scrollChanged, bodyChanged,
                   foundSelectors, invoked, lastScroll, bodyHeight, markerVisible>>
    /\ UNCHANGED <<listening, harvest, urls, todo>>
    /\ UNCHANGED accVars
    /\ UNCHANGED <<counterVars, postsVars, exitVars, pageVars, collectVars, commentVars, cacheVars>>

\* page.on('response', interceptAjax): postpone() for a 'more' response,
\* finish.resolve() for a status other than 200 and 302, finish.reject for 302
interceptAjax(isMore, status) ==
    /\ Quiescent
    /\ listening
    /\ RunStep(isMore,
               IF status # 200 /\ status # 302 THEN ResolveCall
               ELSE IF status = 302 THEN RejectCall("login")
               ELSE NoCall,
               NoOutcome)
    /\ UNCHANGED scrollVars
    /\ UNCHANGED <<listening, harvest, urls, todo>>
    /\ UNCHANGED accVars
    /\ UNCHANGED <<counterVars, postsVars, exitVars, pageVars, collectVars, commentVars, cacheVars>>

\* the clock advances by one tick while the deadline is running
Tick ==
    /\ control.state = "armed"
    /\ now < MaxTime
    /\ control' = TickControl(control)
    /\ now' = now + 1
    /\ idle' = idle + 1
    /\ firstEvent' = IF firstEvent = NoOutcome /\ idle + 1 >= Window THEN Deadline ELSE firstEvent
    /\ calls' = {}
    /\ UNCHANGED <<finish, listening, harvest, urls, todo, firstCall>>
    /\ UNCHANGED scrollVars
    /\ UNCHANGED accVars
    /\ UNCHANGED <<counterVars, postsVars, exitVars, pageVars, collectVars, commentVars, cacheVars>>

RethrownNever(out) == FALSE

\* catch (e) { if (e instanceof AbortError) { log.warning(...) } else { throw e } }
Rethrown(out) == out.kind = "rejected" /\ out.value # "AbortError"

FinallyUnlessThrown(out) == ~Rethrown(out)

\* finally { ... }: runs whatever the try block and the catch did
FinallyRuns(out) == TRUE

\* the try block ended with outcome out: catch, then finally writes the items
\* to request.userData, calls finish.resolve() and page.off('response', ...)
Exit(out) ==
    /\ harvest' = IF Rethrown(out) THEN "threw" ELSE "returned"
    /\ rethrown' = IF Rethrown(out) THEN out.value ELSE "none"
    /\ userData' = IF FinallyRuns(out) THEN urls ELSE userData
    /\ listening' = IF FinallyRuns(out) THEN FALSE ELSE listening
    /\ RunStep(FALSE, IF FinallyRuns(out) THEN ResolveCall ELSE NoCall, NoOutcome)

\* a harvester after `await control.run(...)`: an AbortError is logged, any
\* other error is rethrown; finally userData, finish.resolve() and page.off
AfterRun ==
    /\ harvest = "running"
    /\ control.state \in Terminal
    /\ Exit(control.outcome)
    /\ UNCHANGED <<urls, todo>>
    /\ UNCHANGED scrollVars
    /\ UNCHANGED accVars
    /\ UNCHANGED <<counterVars, postsVars, pageVars, collectVars, commentVars, cacheVars>>

\* control.run([finish.promise, scrollUntil(...)]): the deadline is armed, and
\* a finish.promise that settled before ends the run at once
StartRun ==
    /\ harvest' = "running"
    /\ control' = IF finish.state = "pending" THEN Armed
                  ELSE RunSettles(Armed, OutcomeOf(finish))
    /\ calls' = {}
    /\ UNCHANGED <<finish, listening, now, idle, firstCall, firstEvent>>
    /\ UNCHANGED exitVars

\* getReviews: `await getReviewsFromPage()` before the try block; n reviews
\* are read, or the call throws and getReviews throws with it
GetReviewsFromPage(n, ok) ==
    /\ site = "getReviews"
    /\ harvest = "starting"
    /\ IF ok
       THEN /\ urls' = urls + n
            /\ StartRun
       ELSE /\ harvest' = "threw"
            /\ rethrown' = "probe"
            /\ calls' = {}
            /\ UNCHANGED <<urls, userData, finish, control, listening, now, idle,
                           firstCall, firstEvent>>
    /\ UNCHANGED todo
    /\ UNCHANGED scrollVars
    /\ UNCHANGED accVars
    /\ UNCHANGED <<counterVars, postsVars, pageVars, collectVars, commentVars, cacheVars>>

\* getPostComments: loadCommentsClicked = await page.evaluate(...) inside the
\* try block: clicked, then control.run; not found, then nothing to run; or
\* page.evaluate throws
LoadCommentsClicked(result) ==
    /\ site = "getPostComments"
    /\ harvest = "starting"
    /\ CASE result = "clicked" -> StartRun
         [] result = "notFound" -> Exit(NoOutcome)
         [] result = "throws" -> Exit(Rejected("probe"))
    /\ UNCHANGED <<urls, todo>>
    /\ UNCHANGED scrollVars
    /\ UNCHANGED accVars
    /\ UNCHANGED <<counterVars, postsVars, pageVars, collectVars, commentVars, cacheVars>>

\* an item is added (urls.set, reviews.set, comments.set) by the response
\* listener while attached or by the stop check of a loop that was started,
\* with control.postpone()
Collect ==
    /\ Quiescent
    /\ listening \/ control.state # "none"
    /\ pc = "sleep"
    /\ urls < MaxItems
    /\ urls' = urls + 1
    /\ RunStep(TRUE, NoCall, NoOutcome)
    /\ UNCHANGED <<listening, harvest, todo>>
    /\ UNCHANGED scrollVars
    /\ UNCHANGED accVars
    /\ UNCHANGED <<counterVars, postsVars, exitVars, pageVars, collectVars, commentVars, cacheVars>>

\* scrollUntil(...) settles: maybeStop returned true, or a probe threw
ScrollSettles(out) ==
    /\ Quiescent
    /\ harvest = "running"
    /\ pc = "sleep"
    /\ LoopEnds(out)
    /\ RunStep(FALSE, NoCall, out)
    /\ UNCHANGED <<site, scrolls, heights, scrollChanged, bodyChanged,
                   foundSelectors, invoked, stopped, thrown, lastScroll, bodyHeight,
                   markerVisible>>
    /\ UNCHANGED <<listening, harvest, urls, todo>>
    /\ UNCHANGED accVars
    /\ UNCHANGED <<counterVars, postsVars, exitVars, pageVars, collectVars, commentVars, cacheVars>>

InitRun(sites) ==
    /\ site \in sites
    /\ pc = "sleep"
    /\ count = 0
    /\ scrolls = {}
    /\ heights = {}
    /\ scrollChanged = FALSE
    /\ bodyChanged = FALSE
    /\ foundSelectors = FALSE
    /\ invoked = FALSE
    /\ stopped = FALSE
    /\ thrown = FALSE
    /\ lastScroll = Null
    /\ bodyHeight = Null
    /\ markerVisible \in (IF HasSelectors(site) THEN BOOLEAN ELSE {FALSE})
    /\ finish = [resolved |-> FALSE, state |-> "pending", value |-> "none"]
    /\ control = IF StartsRunning(site) THEN Armed ELSE Unused
    /\ listening = Guarded(site)
    /\ harvest = IF StartsRunning(site) THEN "running"
                 ELSE IF Guarded(site) THEN "starting" ELSE "none"
    /\ userData = Null
    /\ rethrown = "none"
    /\ urls \in (IF Guarded(site) THEN 0..1 ELSE {0})
    /\ todo = 0
    /\ calls = {}
    /\ now = 0
    /\ idle = 0
    /\ firstCall = NoCall
    /\ firstEvent = NoOutcome

InitHarvest == InitRun(Sites)

NextHarvest ==
    \/ StartIteration
    \/ ScrollBy
    \/ \E v \in ProbeVals : SampleScroll(v)
    \/ \E v \in ProbeVals : SampleHeight(v)
    \/ CheckSelectors
    \/ ProbeFails
    \/ PageChanges
    \/ MaybeStopFieldInfos
    \/ \E probe \in {"present", "absent", "throws"} : MaybeStopServices(probe)
    \/ \E n \in 0..MaxPosts : GetPostsFetch(n)
    \/ \E isInfoError \in BOOLEAN : GetPostsFails(isInfoError)
    \/ \E isOver \in BOOLEAN, fresh \in BOOLEAN : GetPostsVisit(isOver, fresh)
    \/ \E ok \in BOOLEAN : AddRequest(ok)
    \/ ClickMore
    \/ \E isOver \in BOOLEAN : MaybeStopPosts(isOver)
    \/ \E isMore \in BOOLEAN, status \in {200, 302, 500} : interceptAjax(isMore, status)
    \/ Tick
    \/ AfterRun

-----------------------------------------------------------------------------
(***************************************************************************)
(* Part III  the date window minMaxDates and the counter                   *)
(*           dateRangeItemCounter (src/src/functions.ts).  A moment is an  *)
(*           instant on a line of days, Null an absent one.                *)
(***************************************************************************)

\* how far back, in days, the window options and the timestamps reach
MaxAgo == 2

\* the caps of the counters: total and older, and the three others
MaxTotal == 10

MaxTally == 2

\* moment(): the instant at which the options are parsed
Today == 5

Instants == (Today - MaxAgo)..Today

\* moment: a.diff(b) is a - b
Diff(a, b) == a - b

\* an option min or max: not given, '<n> days', or a date
Unset == [kind |-> "unset"]

Ago(n) == [kind |-> "ago", n |-> n]

At(t) == [kind |-> "at", t |-> t]

\* the options tried: every instant of the line is one of them
Options == {Unset, At(Today)} \cup {Ago(n) : n \in 1..MaxAgo}

\* falsy: null; '<n> <unit>': moment().subtract(n, unit); else moment(value)
parseTimeUnit(value) ==
    IF value.kind = "unset" THEN Null
    ELSE IF value.kind = "ago" THEN Today - value.n
    ELSE value.t

MinMaxThrowsOnEqual(minDate, maxDate) ==
    minDate # Null /\ maxDate # Null /\ Diff(maxDate, minDate) <= 0

\* if (minDate && maxDate && maxDate.diff(minDate) < 0) throw
MinMaxThrows(minDate, maxDate) ==
    minDate # Null /\ maxDate # Null /\ Diff(maxDate, minDate) < 0

compareExclusive(d, t) ==
    /\ (IF d.minDate # Null THEN Diff(d.minDate, t) < 0 ELSE TRUE)
    /\ (IF d.maxDate # Null THEN Diff(d.maxDate, t) > 0 ELSE TRUE)

\* (minDate ? minDate.diff(base) <= 0 : true) && (maxDate ? maxDate.diff(base) >= 0 : true)
compare(d, t) ==
    /\ (IF d.minDate # Null THEN Diff(d.minDate, t) <= 0 ELSE TRUE)
    /\ (IF d.maxDate # Null THEN Diff(d.maxDate, t) >= 0 ELSE TRUE)

\* no window yet, no counter yet
NoDates == [built |-> "none", min |-> Unset, max |-> Unset, minDate |-> Null, maxDate |-> Null]

NoCounter == [made |-> FALSE, total |-> 0, older |-> 0, newer |-> 0, outOfRange |-> 0, empty |-> 0]

emptyOnTrue(c, predicate) ==
    IF predicate THEN [c EXCEPT !.empty = @ + 1] ELSE c

\* empty(predicate) { if (!predicate) empty++ }
empty(c, predicate) ==
    IF ~predicate THEN [c EXCEPT !.empty = @ + 1] ELSE c

addReplaces(c, value) == [c EXCEPT !.total = value]

\* add(value) { total += value }
add(c, value) == [c EXCEPT !.total = @ + value]

DiffOrOne(bound, value) == IF bound # Null THEN Diff(bound, value) ELSE 1

\* (bound?.diff(value) ?? 0)
DiffOrZero(bound, value) == IF bound # Null THEN Diff(bound, value) ELSE 0

timeCountsTotal(c, d, value) ==
    [c EXCEPT !.outOfRange = IF ~compare(d, value) THEN @ + 1 ELSE @,
              !.total = @ + 1]

timeOlderBeforeMin(c, d, value) ==
    [c EXCEPT !.outOfRange = IF ~compare(d, value) THEN @ + 1 ELSE @,
              !.older = IF DiffOrZero(d.minDate, value) > 0 THEN @ + 1 ELSE @,
              !.newer = IF DiffOrZero(d.minDate, value) > 0 THEN @ + 1 ELSE @]

\* time(value): the three tests, each on its own counter; returns compare(value)
time(c, d, value) ==
    [c EXCEPT !.outOfRange = IF ~compare(d, value) THEN @ + 1 ELSE @,
              !.older = IF DiffOrZero(d.maxDate, value) > 0 THEN @ + 1 ELSE @,
              !.newer = IF DiffOrZero(d.minDate, value) > 0 THEN @ + 1 ELSE @]

isOverAtThreshold(c) ==
    \/ c.outOfRange > 0
       /\ (IF c.older # 0 /\ c.total # 0 THEN 10 * c.older >= 7 * c.total ELSE FALSE)
    \/ (IF c.empty # 0 /\ c.total # 0 THEN 5 * c.empty >= c.total ELSE FALSE)

\* (outOfRange > 0 && (older && total ? older / total > 0.7 : false))
\*   || (empty && total ? empty / total > 0.2 : false)
isOver(c) ==
    \/ c.outOfRange > 0
       /\ (IF c.older # 0 /\ c.total # 0 THEN 10 * c.older > 7 * c.total ELSE FALSE)
    \/ (IF c.empty # 0 /\ c.total # 0 THEN 5 * c.empty > c.total ELSE FALSE)

\* isOver, first operand: outOfRange > 0 && (older && total ? older / total > 0.7 : false)
OverByOlder(c) ==
    c.outOfRange > 0
    /\ (IF c.older # 0 /\ c.total # 0 THEN 10 * c.older > 7 * c.total ELSE FALSE)

\* the counters stay within the caps
Capped(c) ==
    /\ c.total <= MaxTotal /\ c.older <= MaxTotal
    /\ c.newer <= MaxTally /\ c.outOfRange <= MaxTally /\ c.empty <= MaxTally

\* minMaxDates({ min, max }): the window, or nothing but the error thrown
minMaxDates(min, max) ==
    LET minDate == parseTimeUnit(min)
        maxDate == parseTimeUnit(max)
    IN  IF MinMaxThrows(minDate, maxDate)
        THEN [NoDates EXCEPT !.built = "threw", !.min = min, !.max = max]
        ELSE [built |-> "ok", min |-> min, max |-> max,
              minDate |-> minDate, maxDate |-> maxDate]

\* dateRangeItemCounter(minMax): all five counters at 0
dateRangeItemCounter == [NoCounter EXCEPT !.made = TRUE]

\* const date = minMaxDates({ min, max })
MinMaxDates(min, max) ==
    /\ date.built = "none"
    /\ date' = minMaxDates(min, max)
    /\ called' = "minMaxDates"
    /\ argTime' = Null /\ argFlag' = FALSE /\ returned' = FALSE
    /\ UNCHANGED <<counter, tripped>>
    /\ UNCHANGED <<accVars, scrollVars, runVars, postsVars, exitVars, pageVars, collectVars, commentVars, cacheVars>>

\* const counter = dateRangeItemCounter(date)
DateRangeItemCounter ==
    /\ date.built = "ok"
    /\ ~counter.made
    /\ counter' = dateRangeItemCounter
    /\ called' = "dateRangeItemCounter"
    /\ argTime' = Null /\ argFlag' = FALSE /\ returned' = FALSE
    /\ UNCHANGED <<date, tripped>>
    /\ UNCHANGED <<accVars, scrollVars, runVars, postsVars, exitVars, pageVars, collectVars, commentVars, cacheVars>>

\* date.compare(t)
Compare(t) ==
    /\ date.built = "ok"
    /\ called' = "compare"
    /\ argTime' = t
    /\ returned' = compare(date, t)
    /\ argFlag' = FALSE
    /\ UNCHANGED <<date, counter, tripped>>
    /\ UNCHANGED <<accVars, scrollVars, runVars, postsVars, exitVars, pageVars, collectVars, commentVars, cacheVars>>

\* counter.empty(predicate)
Empty(predicate) ==
    /\ counter.made
    /\ Capped(empty(counter, predicate))
    /\ counter' = empty(counter, predicate)
    /\ called' = "empty"
    /\ argFlag' = predicate
    /\ argTime' = Null /\ returned' = FALSE
    /\ tripped' = FALSE
    /\ UNCHANGED date
    /\ UNCHANGED <<accVars, scrollVars, runVars, postsVars, exitVars, pageVars, collectVars, commentVars, cacheVars>>

\* counter.add(value)
Add(value) ==
    /\ counter.made
    /\ Capped(add(counter, value))
    /\ counter' = add(counter, value)
    /\ called' = "add"
    /\ argTime' = Null /\ argFlag' = FALSE /\ returned' = FALSE
    /\ tripped' = FALSE
    /\ UNCHANGED date
    /\ UNCHANGED <<accVars, scrollVars, runVars, postsVars, exitVars, pageVars, collectVars, commentVars, cacheVars>>

\* counter.time(t)
Time(t) ==
    /\ counter.made
    /\ Capped(time(counter, date, t))
    /\ counter' = time(counter, date, t)
    /\ called' = "time"
    /\ argTime' = t
    /\ returned' = compare(date, t)
    /\ argFlag' = FALSE
    /\ tripped' = FALSE
    /\ UNCHANGED date
    /\ UNCHANGED <<accVars, scrollVars, runVars, postsVars, exitVars, pageVars, collectVars, commentVars, cacheVars>>

IsOverResets ==
    /\ counter.made
    /\ called' = "isOver"
    /\ returned' = isOver(counter)
    /\ argTime' = Null /\ argFlag' = FALSE
    /\ tripped' = (tripped \/ OverByOlder(counter))
    /\ counter' = IF isOver(counter) THEN dateRangeItemCounter ELSE counter
    /\ UNCHANGED date
    /\ UNCHANGED <<accVars, scrollVars, runVars, postsVars, exitVars, pageVars, collectVars, commentVars, cacheVars>>

\* counter.isOver()
IsOver ==
    /\ counter.made
    /\ called' = "isOver"
    /\ returned' = isOver(counter)
    /\ argTime' = Null /\ argFlag' = FALSE
    /\ tripped' = (tripped \/ OverByOlder(counter))
    /\ UNCHANGED <<date, counter>>
    /\ UNCHANGED <<accVars, scrollVars, runVars, postsVars, exitVars, pageVars, collectVars, commentVars, cacheVars>>

InitCounter ==
    /\ date = NoDates
    /\ counter = NoCounter
    /\ called = "none"
    /\ argTime = Null
    /\ argFlag = FALSE
    /\ returned = FALSE
    /\ tripped = FALSE

InitPosts ==
    /\ feed = <<>>
    /\ postsMax = 0
    /\ round = 0
    /\ left = 0
    /\ phase = "scroll"

NextCounter ==
    \/ \E min \in Options, max \in Options : MinMaxDates(min, max)
    \/ DateRangeItemCounter
    \/ \E t \in Instants : Compare(t)
    \/ \E predicate \in BOOLEAN : Empty(predicate)
    \/ \E value \in 0..MaxTally : Add(value)
    \/ \E t \in Instants : Time(t)
    \/ IsOver

-----------------------------------------------------------------------------
(***************************************************************************)
(* getPostUrls as the counter sees it: each call of getPosts is a round    *)
(***************************************************************************)

\* the rounds a feed has, and the posts of a full round
Rounds == 8

PerRound == 10

DaysAgo(n) == Today - n

\* a feed: PerRound or fewer posts a round, none at all in round emptyRound,
\* published yesterday up to round oldFrom and five days ago from then on
Feed(n, emptyRound, oldFrom, isPinned) ==
    [r \in 1..Rounds |->
        [n |-> IF r = emptyRound THEN 0 ELSE n,
         publishedTime |-> IF r >= oldFrom THEN DaysAgo(5) ELSE DaysAgo(1),
         isPinned |-> isPinned]]

Feeds ==
    {Feed(n, emptyRound, oldFrom, isPinned) :
        n \in {1, PerRound}, emptyRound \in {0, 2},
        oldFrom \in {1, 6, Rounds + 1}, isPinned \in BOOLEAN}

\* the windows of the harvests: posts of the last two days, posts older than
\* two days, posts of the last two days up to now, every post
Windows ==
    {minMaxDates(Ago(2), Unset), minMaxDates(Unset, Ago(2)),
     minMaxDates(Ago(2), At(Today)), minMaxDates(Unset, Unset)}

\* urls.size >= max || counter.isOver()
ShouldHalt == urls >= postsMax \/ isOver(counter)

\* getPosts begins: posts = await pageSelectors.posts(page, 5000);
\* counter.empty(!posts.length); counter.add(posts.length)
GetPosts ==
    /\ phase = "scroll"
    /\ round < Len(feed)
    /\ LET posts == feed[round + 1] IN
        /\ counter' = add(empty(counter, ~(posts.n # 0)), posts.n)
        /\ left' = posts.n
    /\ round' = round + 1
    /\ phase' = "posts"
    /\ UNCHANGED <<feed, postsMax, date, called, argTime, argFlag, returned, tripped>>
    /\ UNCHANGED <<accVars, scrollVars, runVars, exitVars, pageVars, collectVars, commentVars, cacheVars>>

\* one turn of `for (... of posts)`: finish.resolve() and return when enough
\* urls were collected or the counter is over; otherwise counter.time for a
\* post that is not pinned, date.compare for a pinned one, and urls.add for
\* a post in range
VisitPost ==
    /\ phase = "posts"
    /\ left > 0
    /\ LET post == feed[round] IN
        IF ShouldHalt
        THEN /\ phase' = "halted"
             /\ UNCHANGED <<counter, left, urls>>
        ELSE /\ counter' = IF ~post.isPinned THEN time(counter, date, post.publishedTime)
                           ELSE counter
             /\ urls' = IF compare(date, post.publishedTime) THEN urls + 1 ELSE urls
             /\ left' = left - 1
             /\ UNCHANGED phase
    /\ UNCHANGED <<feed, postsMax, round, date, called, argTime, argFlag, returned,
                   tripped>>
    /\ UNCHANGED <<finish, control, listening, harvest, todo, calls, now, idle,
                   firstCall, firstEvent>>
    /\ UNCHANGED <<accVars, scrollVars, exitVars, pageVars, collectVars, commentVars, cacheVars>>

\* getPosts has returned: maybeStop returns urls.size >= max || counter.isOver()
\* (|| count > 20 && ..., and count stays below 20 in a feed of Rounds rounds)
PostsMaybeStop ==
    /\ phase = "posts"
    /\ left = 0
    /\ phase' = IF ShouldHalt THEN "halted"
                ELSE IF round < Len(feed) THEN "scroll" ELSE "exhausted"
    /\ UNCHANGED <<feed, postsMax, round, left, counterVars>>
    /\ UNCHANGED <<accVars, scrollVars, runVars, exitVars, pageVars, collectVars, commentVars, cacheVars>>

NextPosts ==
    \/ GetPosts
    \/ VisitPost
    \/ PostsMaybeStop

-----------------------------------------------------------------------------
(***************************************************************************)
(* The items of a harvest one by one: the Set urls of getPostUrls and the  *)
(* Map reviews of getReviews (src/unnamed/part_000), an item named by its  *)
(* url.                                                                    *)
(***************************************************************************)
Items == 1..ItemCount

\* what one read of the page returns: the posts or reviews of the DOM
Batches == {<<>>} \cup {<<u>> : u \in Items} \cup {<<u, v>> : u, v \in Items}

Collectors == {"getPostUrls", "getReviews"}

MayAddAgain(u, ok) == ok

\* inDateRange && parsed && !urls.has(parsed.toString()), and a post link
MayAdd(u, ok) == ok /\ u \notin held

\* posts = await pageSelectors.posts(page, 5000), or
\* await pageSelectors.reviews(page, 3000): a read of the page begins
ReadPage(b) ==
    /\ Quiescent
    /\ ~reading
    /\ reads \in {"first", "loop"}
    /\ batch' = b
    /\ reading' = TRUE
    /\ RunStep(FALSE, NoCall, NoOutcome)
    /\ UNCHANGED <<held, enqueued, limit, reads>>
    /\ UNCHANGED <<listening, harvest, urls, todo>>
    /\ UNCHANGED <<accVars, scrollVars, counterVars, postsVars, exitVars, pageVars, commentVars, cacheVars>>

\* getPosts, one turn of `for (... of posts)`: enough urls or a counter that
\* is over resolves finish and returns, and maybeStop then ends the loop;
\* otherwise a post in range with a link not yet in urls is added and
\* enqueued, and an addRequest that throws ends the round in the catch
VisitPostUrl(ok, over, enqueueOk) ==
    /\ Quiescent
    /\ site = "getPostUrls"
    /\ reading /\ batch # <<>>
    /\ LET u == Head(batch) IN
        IF Cardinality(held) >= limit \/ over
        THEN /\ batch' = <<>>
             /\ reading' = FALSE
             /\ reads' = "ended"
             /\ RunStep(FALSE, ResolveCall, NoOutcome)
             /\ UNCHANGED <<held, enqueued>>
        ELSE /\ held' = IF MayAdd(u, ok) THEN held \cup {u} ELSE held
             /\ enqueued' = IF MayAdd(u, ok) /\ enqueueOk
                            THEN [enqueued EXCEPT ![u] = @ + 1] ELSE enqueued
             /\ batch' = IF MayAdd(u, ok) /\ ~enqueueOk THEN <<>> ELSE Tail(batch)
             /\ RunStep(TRUE, IF MayAdd(u, ok) /\ ~enqueueOk THEN ResolveCall ELSE NoCall,
                        NoOutcome)
             /\ UNCHANGED <<reading, reads>>
    /\ urls' = Cardinality(held')
    /\ UNCHANGED limit
    /\ UNCHANGED <<listening, harvest, todo>>
    /\ UNCHANGED <<accVars, scrollVars, counterVars, postsVars, exitVars, pageVars, commentVars, cacheVars>>

\* getPosts returned: maybeStop returns urls.size >= max || counter.isOver()
\* || (count > 20 && !bodyChanged && !scrollChanged)
GetPostsReturns(over, stagnant) ==
    /\ Quiescent
    /\ site = "getPostUrls"
    /\ reading /\ batch = <<>>
    /\ reading' = FALSE
    /\ LET stop == Cardinality(held) >= limit \/ over \/ stagnant IN
        /\ reads' = IF stop THEN "ended" ELSE "loop"
        /\ RunStep(FALSE, NoCall, IF stop THEN Fulfilled("undefined") ELSE NoOutcome)
    /\ UNCHANGED <<held, enqueued, batch, limit>>
    /\ UNCHANGED <<listening, harvest, urls, todo>>
    /\ UNCHANGED <<accVars, scrollVars, counterVars, postsVars, exitVars, pageVars, commentVars, cacheVars>>

\* getReviewsFromPage, one turn of `for (const review of ...)`: a review
\* with a url not yet in reviews is set, with control.postpone(); then
\* reviews.size >= max resolves finish and breaks
VisitReview(hasUrl) ==
    /\ Quiescent
    /\ site = "getReviews"
    /\ reading /\ batch # <<>>
    /\ LET u == Head(batch)
           isNew == hasUrl /\ u \notin held
           reviews == IF isNew THEN held \cup {u} ELSE held
           full == Cardinality(reviews) >= limit
       IN  /\ held' = reviews
           /\ batch' = IF full THEN <<>> ELSE Tail(batch)
           /\ RunStep(isNew, IF full THEN ResolveCall ELSE NoCall, NoOutcome)
    /\ urls' = Cardinality(held')
    /\ UNCHANGED <<enqueued, reading, limit, reads>>
    /\ UNCHANGED <<listening, harvest, todo>>
    /\ UNCHANGED <<accVars, scrollVars, counterVars, postsVars, exitVars, pageVars, commentVars, cacheVars>>

\* getReviewsFromPage returned: after the first read control.run starts with
\* the scroll loop; in the loop maybeStop returns
\* reviews.size >= max || (count > 2 && !scrollChanged && !bodyChanged)
ReviewsReturn(stagnant) ==
    /\ Quiescent
    /\ site = "getReviews"
    /\ reading /\ batch = <<>>
    /\ reading' = FALSE
    /\ IF reads = "first"
       THEN /\ reads' = "loop"
            /\ StartRun
       ELSE LET stop == Cardinality(held) >= limit \/ stagnant IN
            /\ reads' = IF stop THEN "ended" ELSE "loop"
            /\ RunStep(FALSE, NoCall, IF stop THEN Fulfilled("undefined") ELSE NoOutcome)
            /\ UNCHANGED <<listening, harvest, exitVars>>
    /\ UNCHANGED <<held, enqueued, batch, limit>>
    /\ UNCHANGED <<urls, todo>>
    /\ UNCHANGED <<accVars, scrollVars, counterVars, postsVars, pageVars, commentVars, cacheVars>>

InitCollect ==
    /\ held = {}
    /\ enqueued = [u \in Items |-> 0]
    /\ batch = <<>>
    /\ reading = FALSE
    /\ limit = 0
    /\ reads = "ended"

NextCollect ==
    \/ \E b \in Batches : ReadPage(b)
    \/ \E ok \in BOOLEAN, over \in BOOLEAN, enqueueOk \in BOOLEAN :
            VisitPostUrl(ok, over, enqueueOk)
    \/ \E over \in BOOLEAN, stagnant \in BOOLEAN : GetPostsReturns(over, stagnant)
    \/ \E hasUrl \in BOOLEAN : VisitReview(hasUrl)
    \/ \E stagnant \in BOOLEAN : ReviewsReturn(stagnant)
    \/ Tick
    \/ AfterRun

-----------------------------------------------------------------------------
(***************************************************************************)
(* getPostComments (src/unnamed/part_000): the steps of its try block up   *)
(* to control.run, and the response listener interceptGrapQL.  A comment   *)
(* is named by its id; its entry in comments remembers the response it     *)
(* came with.                                                              *)
(***************************************************************************)
Modes == {"RANKED_UNFILTERED", "RANKED_THREADED", "RECENT_ACTIVITY"}

Resps == 1..RespCount

\* comments.has(p.id) is false
Absent == 0

\* an entry of request.userData.comments, left by an earlier attempt
Seeded == -1

\* data.edges of a response: no, one or two comments
Edges ==
    {<<>>} \cup {<<p>> : p \in Items} \cup {e \in Items \X Items : e[1] < e[2]}

\* comments.size
Size(cm) == Cardinality({p \in Items : cm[p] # Absent})

AcceptsAlways(isGraphql, flag) == isGraphql

\* res.url().includes('api/graphql/') && canStartAdding
Accepts(isGraphql, flag) == isGraphql /\ flag

\* the try block has not yet opened the comment ordering or found it missing
OrderingPending(st) == st \in {"click", "waitOrder", "ordering"}

\* data.edges...forEach: an id not in comments is set when the Map holds
\* fewer than max comments and counter.time(created) is true
RECURSIVE SetComments(_, _, _, _)
SetComments(cm, edges, ok, r) ==
    IF edges = <<>> THEN cm
    ELSE LET p == Head(edges)
             next == IF cm[p] = Absent /\ ~(Size(cm) >= limit) /\ ok
                     THEN [cm EXCEPT ![p] = r] ELSE cm
         IN  SetComments(next, Tail(edges), ok, r)

\* status !== 200 && status !== 302: finish.resolve(); 302: finish.reject
StatusCall(status) ==
    IF status # 200 /\ status # 302 THEN ResolveCall
    ELSE IF status = 302 THEN RejectCall("login")
    ELSE NoCall

\* interceptGrapQL is called with a response: a GraphQL response while
\* canStartAdding awaits res.json(), any other goes on to the status test
ResponseArrives(r, isGraphql, status) ==
    /\ Quiescent
    /\ listening
    /\ respPhase[r] = "none"
    /\ \A q \in Resps : q < r => respPhase[q] # "none"
    /\ early' = [early EXCEPT ![r] = OrderingPending(step)]
    /\ IF Accepts(isGraphql, canStartAdding)
       THEN /\ respPhase' = [respPhase EXCEPT ![r] = "parsing"]
            /\ RunStep(FALSE, NoCall, NoOutcome)
       ELSE /\ respPhase' = [respPhase EXCEPT ![r] = "handled"]
            /\ RunStep(FALSE, StatusCall(status), NoOutcome)
    /\ UNCHANGED <<mode, canStartAdding, step, comments>>
    /\ UNCHANGED <<listening, harvest, urls, todo>>
    /\ UNCHANGED <<accVars, scrollVars, counterVars, postsVars, exitVars, pageVars,
                   collectVars, cacheVars>>

\* res.json() threw, or the json holds no display_comments: the status test
ResponseUnparsed(r, status) ==
    /\ Quiescent
    /\ respPhase[r] = "parsing"
    /\ respPhase' = [respPhase EXCEPT ![r] = "handled"]
    /\ RunStep(FALSE, StatusCall(status), NoOutcome)
    /\ UNCHANGED <<mode, canStartAdding, step, early, comments>>
    /\ UNCHANGED <<listening, harvest, urls, todo>>
    /\ UNCHANGED <<accVars, scrollVars, counterVars, postsVars, exitVars, pageVars,
                   collectVars, cacheVars>>

\* res.json() returned display_comments: the edges are counted and set, with
\* control.postpone(); finish is resolved on the last page or with the
\* counter over (last), or at max comments; then the status test
ResponseParsed(r, edges, ok, last) ==
    /\ Quiescent
    /\ respPhase[r] = "parsing"
    /\ LET cm == SetComments(comments, edges, ok, r)
           done == last \/ Size(cm) >= limit
       IN  /\ comments' = cm
           /\ urls' = Size(cm)
           /\ \E status \in (IF done THEN {200} ELSE {200, 302, 500}) :
                RunStep(edges # <<>>,
                        IF done THEN ResolveCall ELSE StatusCall(status), NoOutcome)
    /\ respPhase' = [respPhase EXCEPT ![r] = "handled"]
    /\ UNCHANGED <<mode, canStartAdding, step, early>>
    /\ UNCHANGED <<listening, harvest, todo>>
    /\ UNCHANGED <<accVars, scrollVars, counterVars, postsVars, exitVars, pageVars,
                   collectVars, cacheVars>>

\* loadCommentsClicked = await page.evaluate(...): clicked, not found, or
\* page.evaluate throws into the catch
ClickReturns(result) ==
    /\ site = "getPostComments"
    /\ step = "click"
    /\ CASE result = "clicked" ->
                /\ step' = "waitOrder"
                /\ UNCHANGED <<runVars, exitVars>>
         [] result = "notFound" ->
                /\ step' = "out"
                /\ Exit(NoOutcome)
                /\ UNCHANGED <<urls, todo>>
         [] result = "throws" ->
                /\ step' = "out"
                /\ Exit(Rejected("probe"))
                /\ UNCHANGED <<urls, todo>>
    /\ UNCHANGED <<mode, canStartAdding, respPhase, early, comments>>
    /\ UNCHANGED <<accVars, scrollVars, counterVars, postsVars, pageVars, collectVars, cacheVars>>

\* await page.waitForSelector(COMMENT_ORDER) returned or timed out;
\* control.postpone(); RANKED_THREADED skips the ordering: canStartAdding = true
OrderWaited ==
    /\ step = "waitOrder"
    /\ step' = IF mode # "RANKED_THREADED" THEN "ordering" ELSE "run"
    /\ canStartAdding' = IF mode # "RANKED_THREADED" THEN canStartAdding ELSE TRUE
    /\ RunStep(TRUE, NoCall, NoOutcome)
    /\ UNCHANGED <<mode, respPhase, early, comments>>
    /\ UNCHANGED <<listening, harvest, urls, todo>>
    /\ UNCHANGED <<accVars, scrollVars, counterVars, postsVars, exitVars, pageVars,
                   collectVars, cacheVars>>

\* commentOrdering = await page.$$eval(COMMENT_ORDER, ...): the ordering was
\* opened, or it is missing and canStartAdding = true, or $$eval throws
OrderingEval(result) ==
    /\ step = "ordering"
    /\ CASE result = "opened" ->
                /\ step' = "menu"
                /\ UNCHANGED <<canStartAdding, runVars, exitVars>>
         [] result = "missing" ->
                /\ step' = "run"
                /\ canStartAdding' = TRUE
                /\ UNCHANGED <<runVars, exitVars>>
         [] result = "throws" ->
                /\ step' = "out"
                /\ Exit(Rejected("probe"))
                /\ UNCHANGED <<canStartAdding, urls, todo>>
    /\ UNCHANGED <<mode, respPhase, early, comments>>
    /\ UNCHANGED <<accVars, scrollVars, counterVars, postsVars, pageVars, collectVars, cacheVars>>

\* await page.waitForSelector('[role="menuitemcheckbox"]') returned or timed
\* out: canStartAdding = true
MenuWaited ==
    /\ step = "menu"
    /\ step' = "select"
    /\ canStartAdding' = TRUE
    /\ UNCHANGED <<mode, respPhase, early, comments>>
    /\ UNCHANGED <<accVars, scrollVars, runVars, counterVars, postsVars, exitVars,
                   pageVars, collectVars, cacheVars>>

\* the mode was clicked in the menu and "load more comments" waited for
ModeSelected ==
    /\ step = "select"
    /\ step' = "run"
    /\ UNCHANGED <<mode, canStartAdding, respPhase, early, comments>>
    /\ UNCHANGED <<accVars, scrollVars, runVars, counterVars, postsVars, exitVars,
                   pageVars, collectVars, cacheVars>>

\* await control.run([finish.promise, scrollUntil(...)]) is called
RunStarts ==
    /\ step = "run"
    /\ step' = "running"
    /\ StartRun
    /\ UNCHANGED <<urls, todo>>
    /\ UNCHANGED <<mode, canStartAdding, respPhase, early, comments>>
    /\ UNCHANGED <<accVars, scrollVars, counterVars, postsVars, pageVars, collectVars, cacheVars>>

InitComments ==
    /\ mode = "none"
    /\ canStartAdding = FALSE
    /\ step = "out"
    /\ respPhase = [r \in Resps |-> "none"]
    /\ early = [r \in Resps |-> FALSE]
    /\ comments = [p \in Items |-> Absent]

NextComments ==
    \/ \E r \in Resps, isGraphql \in BOOLEAN, status \in {200, 302, 500} :
            ResponseArrives(r, isGraphql, status)
    \/ \E r \in Resps, status \in {200, 302, 500} : ResponseUnparsed(r, status)
    \/ \E r \in Resps, edges \in Edges, ok \in BOOLEAN, last \in BOOLEAN :
            ResponseParsed(r, edges, ok, last)
    \/ \E result \in {"clicked", "notFound", "throws"} : ClickReturns(result)
    \/ OrderWaited
    \/ \E result \in {"opened", "missing", "throws"} : OrderingEval(result)
    \/ MenuWaited
    \/ ModeSelected
    \/ RunStarts
    \/ \E out \in {Fulfilled("undefined"), Rejected("probe")} : ScrollSettles(out)
    \/ AfterRun

-----------------------------------------------------------------------------
(***************************************************************************)
(* resourceCache (src/src/functions.ts): the 'request' and 'response'      *)
(* listeners of the pages that share one cache.                            *)
(***************************************************************************)
Urls == 1..UrlCount

Requests == 1..ReqCount

\* the url is one the handler looks for: for an image, url.includes('.jpg'),
\* '.jpeg', '.png' or '.gif'; for a script or stylesheet,
\* paths.some((path) => path.test(url)); here every odd url
Fits(url) == url % 2 = 1

\* req.resourceType()
Types == {"image", "script", "stylesheet", "document"}

Cacheable(type) == type \in {"script", "stylesheet"}

\* cache.get(url) is undefined
NoEntry == [present |-> FALSE, loaded |-> FALSE]

NoRequest == [url |-> 0, type |-> "none", responded |-> 0, continued |-> 0,
              fromCache |-> FALSE, phase |-> "none"]

\* the handler reaches req.respond(...) and returns
Responds(type, fits, entry) ==
    \/ type = "image" /\ fits
    \/ Cacheable(type) /\ fits /\ entry.present /\ entry.loaded

\* the handler reaches `await req.continue()`
Continues(type, fits, entry) == ~Responds(type, fits, entry)

\* page.on('request', ...): an image is answered with an empty image, a
\* cached script or stylesheet from the cache; any other request continues,
\* a script or stylesheet of paths after cache.set(url, { loaded: false })
RequestEvent(i, url, type) ==
    /\ reqs[i].phase = "none"
    /\ \A j \in Requests : j < i => reqs[j].phase # "none"
    /\ LET entry == cache[url]
           fits == Fits(url) IN
        /\ reqs' = [reqs EXCEPT ![i] =
                [url |-> url, type |-> type,
                 responded |-> IF Responds(type, fits, entry) THEN 1 ELSE 0,
                 continued |-> IF Continues(type, fits, entry) THEN 1 ELSE 0,
                 fromCache |-> Cacheable(type) /\ Responds(type, fits, entry),
                 phase |-> "answered"]]
        /\ cache' = IF Cacheable(type) /\ fits /\ ~Responds(type, fits, entry)
                    THEN [cache EXCEPT ![url] = [present |-> TRUE, loaded |-> FALSE]]
                    ELSE cache
    /\ UNCHANGED stored
    /\ UNCHANGED <<accVars, scrollVars, runVars, counterVars, postsVars, exitVars,
                   pageVars, collectVars, commentVars>>

\* page.on('response', ...) for a request that went to the network: for a
\* script or stylesheet with an entry that is not loaded, await res.buffer()
ResponseEvent(i) ==
    /\ reqs[i].phase = "answered"
    /\ reqs[i].continued > 0
    /\ LET entry == cache[reqs[i].url] IN
        reqs' = [reqs EXCEPT ![i].phase =
                    IF Cacheable(reqs[i].type) /\ entry.present /\ ~entry.loaded
                    THEN "buffering" ELSE "done"]
    /\ UNCHANGED <<cache, stored>>
    /\ UNCHANGED <<accVars, scrollVars, runVars, counterVars, postsVars, exitVars,
                   pageVars, collectVars, commentVars>>

\* res.buffer() returned length bytes:
\* cache.set(url, { contentType, loaded: buffer.length > 0, content, headers })
BufferRead(i, length) ==
    /\ reqs[i].phase = "buffering"
    /\ reqs' = [reqs EXCEPT ![i].phase = "done"]
    /\ cache' = [cache EXCEPT ![reqs[i].url] = [present |-> TRUE, loaded |-> length > 0]]
    /\ stored' = [stored EXCEPT ![reqs[i].url] = @ \/ length > 0]
    /\ UNCHANGED <<accVars, scrollVars, runVars, counterVars, postsVars, exitVars,
                   pageVars, collectVars, commentVars>>

InitCache ==
    /\ cache = [u \in Urls |-> NoEntry]
    /\ reqs = [i \in Requests |-> NoRequest]
    /\ stored = [u \in Urls |-> FALSE]

NextCache ==
    \/ \E i \in Requests, url \in Urls, type \in Types : RequestEvent(i, url, type)
    \/ \E i \in Requests : ResponseEvent(i)
    \/ \E i \in Requests, length \in 0..1 : BufferRead(i, length)

Init == InitAcc /\ InitHarvest /\ InitCounter /\ InitPosts /\ InitPage /\ InitCollect /\ InitComments /\ InitCache

\* the append calls of the page handlers, no scroll loop followed
InitAppends == Init /\ site = "getServices"

SpecAcc == InitAppends /\ [][NextAcc]_vars

\* one call of scrollUntil by one of its callers, the accumulator left alone
InitScroll == Init /\ restored = <<>>

SpecHarvest == InitScroll /\ [][NextHarvest]_vars

\* one window built and one counter made on it, called in any order
InitWindow == InitScroll /\ site = "getPostUrls" /\ urls = 0

SpecCounter == InitWindow /\ [][NextCounter]_vars

\* getPostUrls on a window of Windows, a feed of Feeds and a max
InitGetPostUrls ==
    /\ InitAcc /\ restored = <<>>
    /\ InitHarvest /\ site = "getPostUrls" /\ urls = 0
    /\ date \in Windows
    /\ counter = dateRangeItemCounter
    /\ called = "none" /\ argTime = Null /\ argFlag = FALSE /\ returned = FALSE
    /\ tripped = FALSE
    /\ feed \in Feeds
    /\ postsMax \in {PerRound, Rounds * PerRound}
    /\ round = 0 /\ left = 0 /\ phase = "scroll"
    /\ InitPage /\ InitCollect /\ InitComments /\ InitCache

SpecPosts == InitGetPostUrls /\ [][NextPosts]_vars

\* one call of a harvester, its scroll loop seen from outside: items come in,
\* the loop settles, the listener speaks, the clock ticks
InitExit ==
    /\ InitAcc /\ restored = <<>>
    /\ InitRun(Harvesters)
    /\ InitCounter
    /\ InitPosts
    /\ InitPage /\ InitCollect /\ InitComments /\ InitCache

NextExit ==
    \/ \E n \in 0..1, ok \in BOOLEAN : GetReviewsFromPage(n, ok)
    \/ \E result \in {"clicked", "notFound", "throws"} : LoadCommentsClicked(result)
    \/ Collect
    \/ \E out \in {Fulfilled("undefined"), Rejected("probe")} : ScrollSettles(out)
    \/ \E isMore \in BOOLEAN, status \in {200, 302, 500} : interceptAjax(isMore, status)
    \/ Tick
    \/ AfterRun

SpecExit == InitExit /\ [][NextExit]_vars

\* the page entries: initSubPage, 'home' and POST requests in any order
InitEntries ==
    /\ restored \in PageSeeds
    /\ state = NewMap(restored)
    /\ kvStore = restored
    /\ callKey = [c \in Calls |-> NoKey]
    /\ callStatus = [c \in Calls |-> "idle"]
    /\ callRead = [c \in Calls |-> <<>>]
    /\ issued = <<>>
    /\ queue = [k \in Keys |-> <<>>]
    /\ inflight = [k \in Keys |-> {}]
    /\ InitHarvest /\ site = "getServices"
    /\ InitCounter
    /\ InitPosts
    /\ InitPage /\ InitCollect /\ InitComments /\ InitCache

SpecPage == InitEntries /\ [][NextPage]_vars

\* one call of getPostUrls or getReviews with a max, on a request whose
\* userData holds the items of an earlier attempt, no more than max
InitItems ==
    /\ InitAcc /\ restored = <<>>
    /\ InitRun(Collectors)
    /\ InitCounter
    /\ InitPosts
    /\ InitPage /\ InitComments /\ InitCache
    /\ limit \in 1..MaxItems
    /\ held \in {h \in SUBSET Items : Cardinality(h) <= limit}
    /\ urls = Cardinality(held)
    /\ enqueued = [u \in Items |-> 0]
    /\ batch = <<>>
    /\ reading = FALSE
    /\ reads = IF StartsRunning(site) THEN "loop" ELSE "first"

SpecCollect == InitItems /\ [][NextCollect]_vars

\* one call of getPostComments with a mode and a max, on a request whose
\* userData holds the comments of an earlier attempt, no more than max;
\* a RANKED mode sets canStartAdding before the first await
InitGraphQl ==
    /\ InitAcc /\ restored = <<>>
    /\ InitRun({"getPostComments"})
    /\ InitCounter
    /\ InitPosts
    /\ InitPage /\ InitCache
    /\ held = {} /\ enqueued = [u \in Items |-> 0] /\ batch = <<>>
    /\ reading = FALSE /\ reads = "ended"
    /\ limit \in 1..MaxItems
    /\ mode \in Modes
    /\ canStartAdding = (mode \in {"RANKED_UNFILTERED", "RANKED_THREADED"})
    /\ step = "click"
    /\ respPhase = [r \in Resps |-> "none"]
    /\ early = [r \in Resps |-> FALSE]
    /\ comments \in {cm \in [Items -> {Absent, Seeded}] : Size(cm) = urls /\ Size(cm) <= limit}

SpecComments == InitGraphQl /\ [][NextComments]_vars

\* the pages of one crawler, their requests and responses in any order
InitShared ==
    /\ Init
    /\ restored = <<>>
    /\ site = "getServices"

SpecCache == InitShared /\ [][NextCache]_vars

-----------------------------------------------------------------------------
(***************************************************************************)
(* Properties of the accumulator                                           *)
(***************************************************************************)
\* what the key held when the run started
SeedOf(k) == MapGet(NewMap(restored), k)

\* the calls issued for key k that completed, in call order
DoneOn(k) == SelectSeq(issued, LAMBDA c : callKey[c] = k /\ callStatus[c] = "done")

\* C1: the value stored for a key is the seed followed by the contribution
\* of every completed append of that key, in call order: the merges were
\* applied one after another, each on the result of the previous one, and
\* no contribution is lost.
C1_FifoNoLostUpdate ==
    \A k \in Keys : MapGet(state, k) = SeedOf(k) \o DoneOn(k)

\* Two appends were issued for the same key while one was still pending,
\* both completed, and the key holds both contributions.
C1_Witness ==
    \E c, d \in Calls :
        /\ c # d /\ callKey[c] = "A" /\ callKey[d] = "A"
        /\ callStatus[c] = "done" /\ callStatus[d] = "done"
        /\ callRead[d] # callRead[c]
        /\ Len(MapGet(state, "A")) >= 2

\* C2: at most one merge is in flight per key.
C2_OneInflightPerKey ==
    \A k \in Keys : Cardinality(inflight[k]) <= 1

\* One merge of a key is in flight while two more appends wait for it.
C2_Witness ==
    \E k \in Keys : Cardinality(inflight[k]) = 1 /\ Len(queue[k]) = 2

\* C3: a waiting append is held back only by an in-flight merge of its own
\* key: whenever a key has a waiting call and no merge in flight, that call
\* can start, whatever the other keys are doing.
C3_KeysIndependent ==
    \A k \in Keys : (queue[k] # <<>> /\ inflight[k] = {}) => ENABLED StartMerge(k)

Position(c) == CHOOSE i \in 1..Len(issued) : issued[i] = c

\* An append on A is inside its merge; an append on B issued after it has
\* already completed.
C3_Witness ==
    \E c, d \in Calls :
        /\ callKey[c] = "A" /\ callStatus[c] = "merging"
        /\ callKey[d] = "B" /\ callStatus[d] = "done"
        /\ Position(c) < Position(d)

\* C4: when a merge fails only its own append fails, the Map is what it was
\* before the merge started, the key is released for the next append, and
\* nothing of another key changes.
C4_MergeFailureIsLocal ==
    [][\A c \in Calls :
        (callStatus[c] = "merging" /\ callStatus'[c] = "failed") =>
            /\ state' = state
            /\ MapGet(state', callKey[c]) = callRead[c]
            /\ inflight'[callKey[c]] = {}
            /\ \A d \in Calls \ {c} : callStatus'[d] = callStatus[d]
            /\ \A k \in Keys \ {callKey[c]} :
                 inflight'[k] = inflight[k] /\ queue'[k] = queue[k]
      ]_vars

\* A merge on A failed, and afterwards a later append on A and an append on
\* B both completed.
C4_Witness ==
    \E c, d, e \in Calls :
        /\ callKey[c] = "A" /\ callStatus[c] = "failed"
        /\ callKey[d] = "A" /\ callStatus[d] = "done" /\ Position(c) < Position(d)
        /\ callKey[e] = "B" /\ callStatus[e] = "done"

-----------------------------------------------------------------------------
(***************************************************************************)
(* Properties of the guarded run, the deferred signal and the scroll loop  *)
(***************************************************************************)

\* C5: while run is armed it aborts exactly when a full idle window has
\* passed since the last postpone() (since the start when postpone() was
\* never called), and then fails with AbortError; with postpone() called at
\* intervals shorter than the window it never aborts.
C5_AbortsExactlyAfterIdleWindow ==
    [][control.state = "armed" =>
        /\ (control'.state = "aborted") = (idle' >= Window)
        /\ (control'.state = "aborted" => control'.outcome = Rejected("AbortError"))
      ]_vars

\* The run outlived the window because postpone() was called in time, and
\* was aborted once a full window passed without one, both tasks pending.
C5_Witness ==
    /\ control.state = "aborted" /\ control.outcome = Rejected("AbortError")
    /\ now > Window /\ idle = Window
    /\ finish.state = "pending" /\ pc \notin {"done", "failed"}

\* C6: run is armed exactly until the first of the two events, the deadline
\* or a guarded task settling; it is aborted, with AbortError, iff the
\* deadline came first, and completed with the outcome of the first task
\* to settle otherwise.
C6_RunEndsWithFirstEvent ==
    Guarded(site) =>
        /\ (control.state = "armed") = (firstEvent = NoOutcome)
        /\ (control.state = "aborted") = (firstEvent = Deadline)
        /\ (control.state = "aborted" => control.outcome = Rejected("AbortError"))
        /\ (control.state = "completed" =>
                /\ firstEvent.kind \in {"fulfilled", "rejected"}
                /\ control.outcome = firstEvent)

\* The scroll loop halted while finish was pending and the deadline had
\* time left: run has completed.
C6_Witness ==
    /\ pc = "done" /\ finish.state = "pending" /\ harvest = "running"
    /\ control.state = "completed" /\ control.outcome = Fulfilled("undefined")
    /\ idle < Window

\* C7: once run is aborted or completed nothing changes the controller,
\* postpone() included; a postpone() that leaves run armed leaves the
\* countdown at the full window.
C7_PostponeAfterEndIsNoOp ==
    [][/\ (control.state \in Terminal => control' = control)
       /\ ("postpone" \in calls' /\ control'.state = "armed" => control'.remaining = Window)
      ]_vars

\* getPostUrls has returned after an abort, the scroll loop it left behind
\* visited another post and called postpone().
C7_Witness ==
    /\ control.state = "aborted" /\ harvest = "returned"
    /\ "postpone" \in calls

\* C8: the first resolve or reject call fixes the outcome of the signal;
\* no later call changes it.
C8_FirstCallWins ==
    IF firstCall = NoCall
    THEN finish.state = "pending" /\ ~finish.resolved
    ELSE /\ finish.resolved
         /\ finish.state = (IF firstCall.op = "resolve" THEN "fulfilled" ELSE "rejected")
         /\ finish.value = firstCall.value

\* finish was rejected and resolve was called on it afterwards.
C8_Witness ==
    /\ finish.state = "rejected" /\ firstCall.op = "reject"
    /\ "resolve" \in calls

\* C9: a selector check made while a stop marker is on the page ends the
\* loop at once, and maybeStop is invoked only in an iteration whose
\* selector check found none.
C9_MarkerStopsBeforePredicate ==
    [][/\ (pc = "selectors" /\ markerVisible /\ pc' # pc =>
                pc' \in {"done", "failed"} /\ ~invoked')
       /\ (invoked' => ~foundSelectors')
      ]_vars

\* After at least one full iteration the loop ended on a stop marker without
\* asking maybeStop in that iteration.
C9_Witness ==
    pc = "done" /\ foundSelectors /\ ~invoked /\ count > 0

\* C10 as stated: the loop has ended iff a stop marker was found or
\* maybeStop returned true.
C10_EndsOnlyOnStop ==
    (pc \in {"done", "failed"}) = (foundSelectors \/ stopped)

\* C10, amended: the loop has returned iff a stop marker was found or
\* maybeStop returned true in its last iteration; whatever the count, a
\* maybeStop that returns false never ends it.
C10_ReturnsOnlyOnStop ==
    (pc = "done") = (foundSelectors \/ stopped)

\* maybeStop returned false six times in a row with no marker found, and
\* the loop ended only when it returned true.
C10_Witness ==
    pc = "done" /\ stopped /\ ~foundSelectors /\ count > FieldInfosCount

\* C11: when maybeStop throws, the scroll loop has failed in that very step
\* (nothing caught the error), and a failed loop never moves again: no
\* further sample, no further call of maybeStop, no further count.
C11_ThrowFailsLoop ==
    [][ /\ thrown' => pc' = "failed"
        /\ pc = "failed" => UNCHANGED scrollVars ]_vars

\* maybeStop threw after at least one full iteration in which it had
\* returned false.
C11_Witness ==
    thrown /\ pc = "failed" /\ invoked /\ count > 0

\* the steps that sample the position and the size signal
ScrollSampled == pc = "sampleScroll" /\ pc' = "sampleHeight"

HeightSampled == pc = "sampleHeight" /\ pc' \in {"selectors", "maybeStop"}

\* C12 as stated: every sampled value is changed iff it is absent from the
\* histogram when tested and is in the histogram afterwards; no histogram
\* ever loses an element.
C12_ChangedIffAbsentThenInserted ==
    [][ /\ ScrollSampled => /\ scrollChanged' = (lastScroll' \notin scrolls)
                            /\ scrolls' = scrolls \cup {lastScroll'}
        /\ HeightSampled => /\ bodyChanged' = (bodyHeight' \notin heights)
                            /\ heights' = heights \cup {bodyHeight'}
        /\ scrolls \subseteq scrolls'
        /\ heights \subseteq heights' ]_vars

\* C12, amended: a sampled value is changed iff it is not null and absent
\* from the histogram when tested; it is inserted afterwards unless it is null
\* or zero, so a value found in the histogram is never changed, while a zero
\* is changed every time; no histogram ever loses an element.
C12_ChangedIffNewAndInsertedIfNonZero ==
    [][ /\ ScrollSampled =>
            /\ scrollChanged' = (lastScroll' # Null /\ lastScroll' \notin scrolls)
            /\ scrolls' = IF lastScroll' \in {Null, 0} THEN scrolls
                          ELSE scrolls \cup {lastScroll'}
            /\ lastScroll' = 0 => scrollChanged'
        /\ HeightSampled =>
            /\ bodyChanged' = (bodyHeight' # Null /\ bodyHeight' \notin heights)
            /\ heights' = IF bodyHeight' \in {Null, 0} THEN heights
                          ELSE heights \cup {bodyHeight'}
            /\ bodyHeight' = 0 => bodyChanged'
        /\ scrolls \subseteq scrolls'
        /\ heights \subseteq heights' ]_vars

\* In a later iteration the position sampled is one the histogram already
\* holds and is classified as not changed, while the size sampled is zero
\* and is classified as changed.
C12_Witness ==
    /\ count > 0
    /\ pc \in {"selectors", "maybeStop"}
    /\ lastScroll \in scrolls /\ ~scrollChanged
    /\ bodyHeight = 0 /\ bodyChanged /\ 0 \notin heights

-----------------------------------------------------------------------------
(***************************************************************************)
(* Properties of the window and the counter                                *)
(***************************************************************************)
\* the harvest of the scenario: posts of the last two days, no upper bound,
\* PerRound posts a round, of five days ago from round 6 on, none pinned
Scenario ==
    /\ feed = Feed(PerRound, 0, 6, FALSE)
    /\ date = minMaxDates(Ago(2), Unset)
    /\ postsMax = Rounds * PerRound

\* C13 as stated: in the scenario, once round 7 is processed older/total
\* exceeds 0.7 and isOver is true, and the harvest halts there: no round 8.
C13_HaltsAfterSevenRounds ==
    Scenario =>
        /\ (round = 7 /\ left = 0) =>
                10 * counter.older > 7 * counter.total /\ isOver(counter)
        /\ round <= 7

\* C13, amended: in the scenario the window has no upper bound, so older
\* stays 0; every round has posts and adds one to empty and PerRound to
\* total; isOver is false throughout and the counter never halts the harvest.
C13_ScenarioNeverOver ==
    Scenario =>
        /\ counter.older = 0
        /\ counter.empty = round
        /\ counter.total = PerRound * round
        /\ ~isOver(counter)
        /\ phase # "halted"

\* The scenario has run through all its rounds, the posts of round 6 and
\* later counted out of range, and was not halted.
C13_Witness ==
    /\ Scenario
    /\ round = Rounds /\ phase = "exhausted"
    /\ counter.outOfRange = (Rounds - 5) * PerRound

\* C14: isOver returns true exactly when outOfRange > 0, total > 0 and
\* older/total > 0.7, or total > 0 and empty/total > 0.2; with total = 0 it
\* returns false.
C14_IsOverExactly ==
    called = "isOver" =>
        /\ returned =
              (\/ counter.outOfRange > 0 /\ counter.total > 0
                  /\ 10 * counter.older > 7 * counter.total
               \/ counter.total > 0 /\ 5 * counter.empty > counter.total)
        /\ counter.total = 0 => ~returned

\* isOver returned false with older/total at 0.7 exactly and a post out of
\* range.
C14_Witness ==
    /\ called = "isOver" /\ ~returned
    /\ counter.outOfRange > 0
    /\ counter.total > 0 /\ 10 * counter.older = 7 * counter.total

\* C15: time(t) adds one to outOfRange exactly when compare(t) is false,
\* returns what compare(t) returns, and leaves total and empty alone.
C15_TimeCountsOutOfRange ==
    [][ called' = "time" =>
            /\ counter'.outOfRange =
                  counter.outOfRange + (IF compare(date, argTime') THEN 0 ELSE 1)
            /\ returned' = compare(date, argTime')
            /\ counter'.total = counter.total
            /\ counter'.empty = counter.empty ]_vars

\* time returned false on a counter to which nothing was added.
C15_Witness ==
    /\ called = "time" /\ ~returned
    /\ counter.outOfRange = 1 /\ counter.total = 0 /\ counter.empty = 0

\* C16 as stated: time(t) adds one to newer exactly when the lower bound is
\* defined and strictly earlier than t.
C16_NewerIffMinEarlier ==
    [][ called' = "time" =>
            counter'.newer =
                counter.newer + (IF date.minDate # Null /\ date.minDate < argTime'
                                 THEN 1 ELSE 0) ]_vars

\* C17: time(t) adds one to older exactly when the upper bound is defined
\* and strictly later than t.
C17_OlderIffMaxLater ==
    [][ called' = "time" =>
            counter'.older =
                counter.older + (IF date.maxDate # Null /\ date.maxDate > argTime'
                                 THEN 1 ELSE 0) ]_vars

\* time counted as older a timestamp that is inside the window.
C17_Witness ==
    /\ called = "time" /\ returned
    /\ counter.older > 0
    /\ date.maxDate # Null /\ argTime < date.maxDate

\* C18 as stated: empty(predicate) adds one to empty exactly when predicate
\* is false, and a round of getPosts adds one to empty exactly when it
\* returned no post.
C18_EmptyRoundsCounted ==
    [][ /\ called' = "empty" =>
            counter'.empty = counter.empty + (IF argFlag' THEN 0 ELSE 1)
        /\ round' = round + 1 =>
            counter'.empty = counter.empty + (IF feed[round'].n = 0 THEN 1 ELSE 0)
      ]_vars

\* C19: compare(t) is true exactly when the lower bound is absent or not
\* later than t, and the upper bound is absent or not earlier than t.
C19_CompareInclusive ==
    called \in {"compare", "time"} =>
        returned = (/\ date.minDate = Null \/ date.minDate <= argTime
                    /\ date.maxDate = Null \/ argTime <= date.maxDate)

\* compare returned true for the upper bound itself of a window with two
\* distinct bounds.
C19_Witness ==
    /\ called = "compare" /\ returned
    /\ date.minDate # Null /\ date.minDate < date.maxDate
    /\ argTime = date.maxDate

\* C20: minMaxDates throws exactly when both bounds are given and the upper
\* one is earlier than the lower one; after a throw there is no window and
\* no counter.
C20_ThrowsIffInverted ==
    /\ date.built # "none" =>
        (date.built = "threw") =
            (/\ parseTimeUnit(date.min) # Null /\ parseTimeUnit(date.max) # Null
             /\ parseTimeUnit(date.max) < parseTimeUnit(date.min))
    /\ date.built = "threw" =>
        ~counter.made /\ date.minDate = Null /\ date.maxDate = Null

\* a window whose two bounds are the same instant was built, and a counter
\* made on it.
C20_Witness ==
    /\ date.built = "ok" /\ counter.made
    /\ date.minDate # Null /\ date.minDate = date.maxDate

\* C21: no call on the counter (empty, add of a batch size, time) ever
\* lowers total, older, newer, outOfRange or empty.
C21_CountersNeverDecrease ==
    [][ counter.made =>
            /\ counter'.total >= counter.total
            /\ counter'.older >= counter.older
            /\ counter'.newer >= counter.newer
            /\ counter'.outOfRange >= counter.outOfRange
            /\ counter'.empty >= counter.empty ]_vars

\* every one of the five counters has grown, the last call being an add.
C21_Witness ==
    /\ called = "add"
    /\ counter.total > 0 /\ counter.older > 0 /\ counter.newer > 0
    /\ counter.outOfRange > 0 /\ counter.empty > 0

\* C22: once isOver has returned true on older/total above 0.7 with a post
\* out of range, every later isOver call returns true, as long as no empty,
\* add or time call was made in between.
C22_StaysOverWithoutInput ==
    (tripped /\ called = "isOver") => returned

\* isOver returned true on older/total alone, compare was called next and
\* changed nothing of the counter.
C22_Witness ==
    /\ tripped /\ called = "compare"
    /\ OverByOlder(counter) /\ counter.empty = 0

\* C23: the Map restored from the pairs of a snapshot is the Map that was
\* snapshotted, with its keys, their values and their order, and the
\* snapshot of a restored Map is the pairs it was restored from.
C23_SnapshotRestoreRoundTrip ==
    /\ NewMap(Spread(state)) = state
    /\ Spread(NewMap(kvStore)) = kvStore

\* a Map restored with one key has gained a second one, and the snapshot
\* just written holds both, the restored key first.
C23_Witness ==
    /\ restored # <<>>
    /\ Len(state) = 2
    /\ kvStore = Spread(state)
    /\ kvStore[1][1] = restored[1][1]

\* C24: a key of the Map is a key of it in every later state, at the
\* position it had, whatever append resolves or rejects and whatever
\* snapshot is written.
C24_KeysOnlyGrow ==
    [][ /\ Len(state') >= Len(state)
        /\ \A i \in 1..Len(state) : state'[i].key = state[i].key ]_vars

\* an append on a key the Map already had was rejected, a snapshot was
\* written afterwards, and both keys are still there.
C24_Witness ==
    /\ Len(state) = 2
    /\ kvStore = Spread(state)
    /\ \E c \in Calls : callStatus[c] = "failed" /\ MapHas(state, callKey[c])

\* where the stop check of an iteration stands: the selectors, maybeStop,
\* and for getPostUrls the steps of getPosts and the final test
InStopCheck(p) == p \in {"selectors", "maybeStop", "posts", "addRequest", "click", "return"}

\* C25: in an iteration the scroll comes first, then the position sample
\* with the update of its histogram, then the size sample with the update of
\* its histogram, then the stop check; the histograms are touched by their
\* own sample only, and the stop check acts only once both samples are done.
C25_SamplesBeforeStopCheck ==
    [][ /\ (pc' = "sampleScroll" /\ pc # pc') => pc = "scrollBy"
        /\ (pc' = "sampleHeight" /\ pc # pc') =>
                pc = "sampleScroll" /\ scrolls' = Record(scrolls, lastScroll')
        /\ (InStopCheck(pc') /\ ~InStopCheck(pc)) =>
                pc = "sampleHeight" /\ heights' = Record(heights, bodyHeight')
        /\ scrolls' # scrolls => pc = "sampleScroll"
        /\ heights' # heights => pc = "sampleHeight"
        /\ (invoked' # invoked \/ stopped' # stopped \/ count' # count) =>
                InStopCheck(pc) \/ pc = "sleep" ]_vars

\* in a later iteration maybeStop is about to be asked with both samples of
\* the iteration taken and recorded.
C25_Witness ==
    /\ count > 0 /\ pc = "maybeStop" /\ ~invoked
    /\ lastScroll \in scrolls
    /\ bodyHeight \in heights

\* C26: neither 0 nor null is ever in a histogram, and a signal whose sample
\* of the iteration is null is reported as not changed.
C26_ZeroAndNullNeverRecorded ==
    /\ scrolls \cap {0, Null} = {}
    /\ heights \cap {0, Null} = {}
    /\ (pc \in {"sampleHeight", "selectors", "maybeStop"} /\ lastScroll = Null)
            => ~scrollChanged
    /\ (pc \in {"selectors", "maybeStop"} /\ bodyHeight = Null) => ~bodyChanged

\* in a later iteration the position sampled is 0 and the size sampled is
\* null, after a position and a size were recorded.
C26_Witness ==
    /\ count > 0 /\ pc = "maybeStop"
    /\ lastScroll = 0 /\ bodyHeight = Null /\ ~bodyChanged
    /\ scrolls # {} /\ heights # {}

\* C27: count is 0 until a stop check lets the loop go on; it grows by one
\* exactly in the step in which a stop check returns without halting, and
\* not in the step that ends the loop.
C27_CountIsContinuedChecks ==
    /\ count = 0
    /\ [][ /\ count' # count =>
                /\ count' = count + 1
                /\ InStopCheck(pc) /\ pc' = "sleep"
                /\ ~stopped' /\ ~foundSelectors' /\ ~thrown'
           /\ (InStopCheck(pc) /\ pc' = "sleep") => count' = count + 1
           /\ pc' \in {"done", "failed"} => count' = count ]_vars

\* getServices halted on its fourth stop check, the first three having let
\* the loop go on: count is 3.
C27_Witness ==
    /\ site = "getServices"
    /\ pc = "done" /\ stopped
    /\ count = ServicesCount + 1

\* C28: when the guarded run of getPostUrls, getReviews or getPostComments
\* rejects with AbortError the harvester returns normally, throwing nothing
\* and keeping the items collected so far; when it rejects with any other
\* error the harvester throws that very error.
C28_AbortReturnsOtherErrorsRethrown ==
    [][ (harvest = "running" /\ harvest' # "running" /\ control.outcome.kind = "rejected") =>
            IF control.outcome.value = "AbortError"
            THEN harvest' = "returned" /\ rethrown' = "none" /\ urls' = urls
            ELSE harvest' = "threw" /\ rethrown' = control.outcome.value ]_vars

\* getReviews returned after the idle deadline aborted its run, with an item
\* collected.
C28_Witness ==
    /\ site = "getReviews"
    /\ harvest = "returned" /\ rethrown = "none"
    /\ control.state = "aborted" /\ control.outcome = Rejected("AbortError")
    /\ urls > 0

\* C29: however the guarded run of a harvester ends (fulfilled, AbortError,
\* any other error), the step that leaves it writes the items collected so
\* far to request.userData, leaves the finish signal settled and the
\* response listener unregistered.
C29_ExitAlwaysCleansUp ==
    [][ (harvest = "running" /\ harvest' # "running") =>
            /\ userData' = urls
            /\ finish'.state # "pending"
            /\ ~listening' ]_vars

\* getPostComments threw the login redirect its run rejected with, its item
\* written to request.userData, the signal settled and the listener off.
C29_Witness ==
    /\ site = "getPostComments"
    /\ harvest = "threw" /\ rethrown = "login"
    /\ urls > 0 /\ userData = urls
    /\ finish.state # "pending" /\ ~listening

\* the posts of every round of the feed are pinned
AllPinned == \A r \in DOMAIN feed : feed[r].isPinned

\* C30 as stated: a pinned post increases none of total, older, newer and
\* outOfRange, so a harvest of a feed of pinned posts leaves all four at 0.
C30_PinnedPostsLeaveMetrics ==
    AllPinned =>
        /\ counter.total = 0
        /\ counter.older = 0
        /\ counter.newer = 0
        /\ counter.outOfRange = 0

\* the merge of an initialising append of key k is stored in this step
InitStored(c, k) ==
    /\ callKind[c].op = "init" /\ callKey[c] = k
    /\ callStatus[c] = "merging" /\ callStatus'[c] = "done"

\* C31: when the merge of an initialising append is stored, an absent key
\* gets the empty default with the page url and the referrer of that call,
\* and an existing entry keeps every field it held with the value it held,
\* whatever other appends of the key were made before, between or after.
C31_InitCreatesOrKeeps ==
    [][ \A c \in Calls, k \in Keys : InitStored(c, k) =>
            IF ~MapHas(state, k)
            THEN MapGet(state', k) =
                    Assign(emptyState, [pageUrl |-> k, ref |-> callKind[c].arg])
            ELSE /\ \A f \in DOMAIN MapGet(state, k) :
                        MapGet(state', k)[f] = MapGet(state, k)[f]
                 /\ MapKeys(state') = MapKeys(state) ]_vars

\* an initialising append issued from the start url was stored after the
\* 'home' page and a post of the same key: the title, the post and the
\* referrer the entry was restored with are still there.
C31_Witness ==
    \E c \in Calls :
        /\ callKind[c] = [op |-> "init", arg |-> "start"]
        /\ callStatus[c] = "done" /\ callKey[c] = "A"
        /\ callRead[c] # <<>> /\ "posts" \in DOMAIN callRead[c]
        /\ callRead[c].posts # <<>>
        /\ MapGet(state, "A") = Assign(emptyState, callRead[c])
        /\ MapGet(state, "A").ref = "listing"

\* the post records of request r in the entry of key k
PostsOf(k, r) ==
    LET value == MapGet(state, k)
    IN  IF "posts" \in DOMAIN value
        THEN {i \in 1..Len(value.posts) : value.posts[i] = r}
        ELSE {}

\* C36 as stated: an entry never holds more than one post record of the
\* same POST request, retried or not.
C36_OnePostPerRequest ==
    \A k \in Keys, r \in Reqs : Cardinality(PostsOf(k, r)) <= 1

\* C32: in getPostUrls, seeded with at most max urls, the set never holds
\* more than max urls; a url enters the set only when it was not in it, no
\* url leaves the set, and a url is enqueued only in the step that adds it,
\* so at most once.
C32_UrlsWithinMaxAddedOnce ==
    /\ (site = "getPostUrls" => Cardinality(held) <= limit)
    /\ [][ site = "getPostUrls" =>
            /\ Cardinality(held') <= limit
            /\ held \subseteq held'
            /\ \A u \in Items :
                    /\ enqueued'[u] <= 1
                    /\ enqueued'[u] # enqueued[u] => u \notin held /\ u \in held' ]_vars

\* getPostUrls, seeded with one url and allowed two, was shown the seeded
\* url again and a new one: the set is full, only the new one was enqueued,
\* and the loop has ended.
C32_Witness ==
    /\ site = "getPostUrls"
    /\ limit = MaxItems /\ Cardinality(held) = limit
    /\ \E u, v \in held : enqueued[u] = 0 /\ enqueued[v] = 1
    /\ reads = "ended"

\* C33 as stated: in getReviews the Map never holds more than max reviews.
C33_ReviewsWithinMax ==
    site = "getReviews" => Cardinality(held) <= limit

\* C34 as stated: once getPostUrls has returned or thrown, no round of
\* getPosts begins, the set of urls does not change and no request is
\* enqueued, so the urls written to request.userData.urls at the return are
\* all the urls of the set.
C34_NoRoundAfterReturn ==
    /\ [][ (site = "getPostUrls" /\ harvest \in {"returned", "threw"}) =>
            /\ held' = held
            /\ enqueued' = enqueued
            /\ ~(reading' /\ ~reading) ]_vars
    /\ [](site = "getPostUrls" /\ harvest \in {"returned", "threw"} =>
            userData = Cardinality(held))

\* C35: on a window with no upper bound older is 0 whatever was counted, the
\* older/total clause of isOver is false, and isOver is true only when
\* empty/total exceeds 0.2.
C35_NoUpperBoundNeverOlder ==
    (date.built = "ok" /\ date.maxDate = Null) =>
        /\ counter.older = 0
        /\ ~OverByOlder(counter)
        /\ isOver(counter) =>
                counter.empty # 0 /\ counter.total # 0 /\ 5 * counter.empty > counter.total
        /\ (called = "isOver" /\ returned) => 5 * counter.empty > counter.total

\* on a window with a lower bound only, timestamps before the bound were
\* counted out of range and isOver has just returned true.
C35_Witness ==
    /\ date.built = "ok" /\ date.maxDate = Null /\ date.minDate # Null
    /\ counter.outOfRange > 0 /\ counter.newer > 0
    /\ called = "isOver" /\ returned

\* C37: in getPostComments an entry of comments is set only in a step taken
\* with canStartAdding true; in mode RECENT_ACTIVITY no entry comes from a
\* response that arrived before the comment ordering was opened or found
\* missing; and comments never holds more than max entries.
C37_CommentsOnlyWhenAllowed ==
    /\ [][ comments' # comments => canStartAdding ]_vars
    /\ [](mode = "RECENT_ACTIVITY" =>
            \A p \in Items : comments[p] \in Resps => ~early[comments[p]])
    /\ [](site = "getPostComments" => Size(comments) <= limit)

\* mode RECENT_ACTIVITY with one comment left by an earlier attempt: a
\* response that arrived once the ordering was handled brought a comment
\* that was recorded; comments is at max with another comment not held,
\* and finish is resolved.
C37_Witness ==
    /\ mode = "RECENT_ACTIVITY" /\ limit = MaxItems
    /\ \E p, q, o \in Items :
            /\ comments[p] = Seeded
            /\ comments[q] \in Resps /\ ~early[comments[q]]
            /\ comments[o] = Absent
    /\ Size(comments) = limit
    /\ \A r \in Resps : respPhase[r] = "handled"
    /\ finish.state = "fulfilled"

\* every request the listener handled was answered by exactly one of
\* req.respond and req.continue
AnsweredOnce == \A i \in Requests :
    reqs[i].phase # "none" => reqs[i].responded + reqs[i].continued = 1

\* a script or stylesheet is answered from the cache only when a response
\* with a non-empty body was stored for its url before
CachedOnlyStored == \A i \in Requests : reqs[i].fromCache => stored[reqs[i].url]

\* an entry that is loaded stays loaded
LoadedKept == \A u \in Urls : cache[u].loaded => cache'[u].loaded

\* C38: every intercepted request is answered exactly once, a script or
\* stylesheet is answered from the cache only after a non-empty body was
\* stored for its url, and an entry marked loaded is never reset to
\* not-loaded, in any order of the request and response events of the pages
\* sharing the cache.
C38_AnsweredOnceLoadedKept ==
    /\ [](AnsweredOnce /\ CachedOnlyStored)
    /\ [][LoadedKept]_vars

=============================================================================
